---------------------------- MODULE Spec2Model ----------------------------
(***************************************************************************)
(* NeetHub: the commit engine of src/NH/src/lib/github.ts (first version   *)
(* of the file, lines 1-319), the background handler of                    *)
(* src/NH/src/background/index.ts and the push orchestrator of the content *)
(* script src/NH/src/content/neetcode.ts.                                  *)
(*                                                                         *)
(* Strings of the program are TLA+ strings; where the program looks inside *)
(* a string (padding, substring tests, encoding) the string is taken as    *)
(* its sequence of UTF-16 code units, through the table Chars.             *)
(***************************************************************************)
EXTENDS Integers, Sequences, FiniteSets, TLC

(***************************************************************************)
(* Bounds of the model.                                                    *)
(***************************************************************************)
MaxCalls == 2        \* submission messages handled by the background
MaxFaults == 1       \* remote API failures injected per behaviour

(***************************************************************************)
(* Text.                                                                   *)
(***************************************************************************)
Chars(s) ==
  CASE s = "" -> <<>>
    [] s = "NeetCode" -> <<78, 101, 101, 116, 67, 111, 100, 101>>
    [] s = "README.md" -> <<82, 69, 65, 68, 77, 69, 46, 109, 100>>
    [] s = "Problem" -> <<80, 114, 111, 98, 108, 101, 109>>
    [] s = "Unknown" -> <<85, 110, 107, 110, 111, 119, 110>>
    [] s = "n/a" -> <<110, 47, 97>>
    [] s = "// NeetCode: " -> <<47, 47, 32, 78, 101, 101, 116, 67, 111, 100, 101, 58, 32>>
    [] s = "\n// Runtime: " -> <<10, 47, 47, 32, 82, 117, 110, 116, 105, 109, 101, 58, 32>>
    [] s = ", Memory: " -> <<44, 32, 77, 101, 109, 111, 114, 121, 58, 32>>
    [] s = "\n// Submitted: " -> <<10, 47, 47, 32, 83, 117, 98, 109, 105, 116, 116, 101, 100, 58, 32>>
    [] s = "\n\n" -> <<10, 10>>
    [] s = "\n" -> <<10>>
    [] s = "<h2><a href=\"" -> <<60, 104, 50, 62, 60, 97, 32, 104, 114, 101, 102, 61, 34>>
    [] s = "\">" -> <<34, 62>>
    [] s = "</a></h2><h3>" -> <<60, 47, 97, 62, 60, 47, 104, 50, 62, 60, 104, 51, 62>>
    [] s = "</h3><hr>" -> <<60, 47, 104, 51, 62, 60, 104, 114, 62>>
    [] s = "Two Sum" -> <<84, 119, 111, 32, 83, 117, 109>>
    [] s = "Cafe'" -> <<67, 97, 102, 233>>
    [] s = "3Sum" -> <<51, 83, 117, 109>>
    [] s = "two-sum" -> <<116, 119, 111, 45, 115, 117, 109>>
    [] s = "3sum" -> <<51, 115, 117, 109>>
    [] s = "python" -> <<112, 121, 116, 104, 111, 110>>
    [] s = "java" -> <<106, 97, 118, 97>>
    [] s = "brainfuck" -> <<98, 114, 97, 105, 110, 102, 117, 99, 107>>
    [] s = "49" -> <<52, 57>>
    [] s = "group-anagrams" -> <<103, 114, 111, 117, 112, 45, 97, 110, 97, 103, 114, 97, 109, 115>>
    [] s = "NeetCode/" -> <<78, 101, 101, 116, 67, 111, 100, 101, 47>>
    [] s = "/README.md" -> <<47, 82, 69, 65, 68, 77, 69, 46, 109, 100>>
    [] s = "NeetCode/0049-group-anagrams/0049-group-anagrams.py" -> <<78, 101, 101, 116, 67, 111, 100, 101, 47, 48, 48, 52, 57, 45, 103, 114, 111, 117, 112, 45, 97, 110, 97, 103, 114, 97, 109, 115, 47, 48, 48, 52, 57, 45, 103, 114, 111, 117, 112, 45, 97, 110, 97, 103, 114, 97, 109, 115, 46, 112, 121>>
    [] s = "NeetCode/0049-group-anagrams/README.md" -> <<78, 101, 101, 116, 67, 111, 100, 101, 47, 48, 48, 52, 57, 45, 103, 114, 111, 117, 112, 45, 97, 110, 97, 103, 114, 97, 109, 115, 47, 82, 69, 65, 68, 77, 69, 46, 109, 100>>
    [] s = "pass" -> <<112, 97, 115, 115>>
    [] s = "int x;" -> <<105, 110, 116, 32, 120, 59>>
    [] s = "+[-]" -> <<43, 91, 45, 93>>
    [] s = "52ms" -> <<53, 50, 109, 115>>
    [] s = "44.1MB" -> <<52, 52, 46, 49, 77, 66>>
    [] s = "1" -> <<49>>
    [] s = "https://neetcode.io/problems/two-sum/question" ->
         <<104, 116, 116, 112, 115, 58, 47, 47, 110, 101, 101, 116, 99, 111,
           100, 101, 46, 105, 111, 47, 112, 114, 111, 98, 108, 101, 109, 115,
           47, 116, 119, 111, 45, 115, 117, 109, 47, 113, 117, 101, 115, 116,
           105, 111, 110>>
    [] s = "py" -> <<112, 121>>
    [] s = "cpp" -> <<99, 112, 112>>
    [] s = "c++" -> <<99, 43, 43>>
    [] s = "javascript" -> <<106, 97, 118, 97, 115, 99, 114, 105, 112, 116>>
    [] s = "node" -> <<110, 111, 100, 101>>
    [] s = "js" -> <<106, 115>>
    [] s = "typescript" -> <<116, 121, 112, 101, 115, 99, 114, 105, 112, 116>>
    [] s = "ts" -> <<116, 115>>
    [] s = "c#" -> <<99, 35>>
    [] s = "csharp" -> <<99, 115, 104, 97, 114, 112>>
    [] s = "cs" -> <<99, 115>>
    [] s = "go" -> <<103, 111>>
    [] s = "golang" -> <<103, 111, 108, 97, 110, 103>>
    [] s = "ruby" -> <<114, 117, 98, 121>>
    [] s = "rb" -> <<114, 98>>
    [] s = "swift" -> <<115, 119, 105, 102, 116>>
    [] s = "kotlin" -> <<107, 111, 116, 108, 105, 110>>
    [] s = "kt" -> <<107, 116>>
    [] s = "rust" -> <<114, 117, 115, 116>>
    [] s = "rs" -> <<114, 115>>
    [] s = "c" -> <<99>>
    [] s = "txt" -> <<116, 120, 116>>
    [] s = "md" -> <<109, 100>>
    [] s = "Easy" -> <<69, 97, 115, 121>>
    [] s = "<p>Hi</p>" -> <<60, 112, 62, 72, 105, 60, 47, 112, 62>>
    [] s = "def two_sum(nums): pass" ->
         <<100, 101, 102, 32, 116, 119, 111, 95, 115, 117, 109, 40, 110,
           117, 109, 115, 41, 58, 32, 112, 97, 115, 115>>
    [] s = "class Solution { int[] f; }" ->
         <<99, 108, 97, 115, 115, 32, 83, 111, 108, 117, 116, 105, 111,
           110, 32, 123, 32, 105, 110, 116, 91, 93, 32, 102, 59, 32, 125>>
    [] s = "Two-Sum" -> <<84, 119, 111, 45, 83, 117, 109>>
    [] s = "unknown" -> <<117, 110, 107, 110, 111, 119, 110>>
    [] s = "Unknown Problem" ->
         <<85, 110, 107, 110, 111, 119, 110, 32, 80, 114, 111, 98, 108,
           101, 109>>
    [] s = "auto" -> <<97, 117, 116, 111>>
    [] s = "Accepted" -> <<65, 99, 99, 101, 112, 116, 101, 100>>
    [] s = "ACCEPTED" -> <<65, 67, 67, 69, 80, 84, 69, 68>>
    [] s = "accepted" -> <<97, 99, 99, 101, 112, 116, 101, 100>>
    [] s = "Wrong Answer" ->
         <<87, 114, 111, 110, 103, 32, 65, 110, 115, 119, 101, 114>>
    [] s = "Processing" -> <<80, 114, 111, 99, 101, 115, 115, 105, 110, 103>>
    [] s = "rejected" -> <<114, 101, 106, 101, 99, 116, 101, 100>>
    [] s = "pending" -> <<112, 101, 110, 100, 105, 110, 103>>
    [] s = "wrong answer" ->
         <<119, 114, 111, 110, 103, 32, 97, 110, 115, 119, 101, 114>>
    [] s = "time limit exceeded" ->
         <<116, 105, 109, 101, 32, 108, 105, 109, 105, 116, 32, 101, 120,
           99, 101, 101, 100, 101, 100>>
    [] s = "https://neetcode.io/problems/" ->
         <<104, 116, 116, 112, 115, 58, 47, 47, 110, 101, 101, 116, 99,
           111, 100, 101, 46, 105, 111, 47, 112, 114, 111, 98, 108, 101,
           109, 115, 47>>
    [] s = "/question" -> <<47, 113, 117, 101, 115, 116, 105, 111, 110>>
    [] s = "submission" -> <<115, 117, 98, 109, 105, 115, 115, 105, 111, 110>>
    [] s = "submitted at" -> <<115, 117, 98, 109, 105, 116, 116, 101, 100, 32, 97, 116>>
    [] s = "test cases" -> <<116, 101, 115, 116, 32, 99, 97, 115, 101, 115>>
    [] s = " " -> <<32>>
    [] s = "-" -> <<45>>
    [] s = "public class" -> <<112, 117, 98, 108, 105, 99, 32, 99, 108, 97, 115, 115>>
    [] s = "private class" -> <<112, 114, 105, 118, 97, 116, 101, 32, 99, 108, 97, 115, 115>>
    [] s = "class solution" -> <<99, 108, 97, 115, 115, 32, 115, 111, 108, 117, 116, 105, 111, 110>>
    [] s = "import java." -> <<105, 109, 112, 111, 114, 116, 32, 106, 97, 118, 97, 46>>
    [] s = "arraylist<" -> <<97, 114, 114, 97, 121, 108, 105, 115, 116, 60>>
    [] s = "hashmap<" -> <<104, 97, 115, 104, 109, 97, 112, 60>>
    [] s = "public static void" -> <<112, 117, 98, 108, 105, 99, 32, 115, 116, 97, 116, 105, 99, 32, 118, 111, 105, 100>>
    [] s = "package " -> <<112, 97, 99, 107, 97, 103, 101, 32>>
    [] s = ";" -> <<59>>
    [] s = "def " -> <<100, 101, 102, 32>>
    [] s = "import " -> <<105, 109, 112, 111, 114, 116, 32>>
    [] s = ":" -> <<58>>
    [] s = "self." -> <<115, 101, 108, 102, 46>>
    [] s = "self," -> <<115, 101, 108, 102, 44>>
    [] s = "class solution:" -> <<99, 108, 97, 115, 115, 32, 115, 111, 108, 117, 116, 105, 111, 110, 58>>
    [] s = "list[" -> <<108, 105, 115, 116, 91>>
    [] s = ".items()" -> <<46, 105, 116, 101, 109, 115, 40, 41>>
    [] s = ".append(" -> <<46, 97, 112, 112, 101, 110, 100, 40>>
    [] s = ".get(" -> <<46, 103, 101, 116, 40>>
    [] s = "range(" -> <<114, 97, 110, 103, 101, 40>>
    [] s = "len(" -> <<108, 101, 110, 40>>
    [] s = "enumerate(" -> <<101, 110, 117, 109, 101, 114, 97, 116, 101, 40>>
    [] s = ": list[" -> <<58, 32, 108, 105, 115, 116, 91>>
    [] s = ": dict[" -> <<58, 32, 100, 105, 99, 116, 91>>
    [] s = "none:" -> <<110, 111, 110, 101, 58>>
    [] s = "true" -> <<116, 114, 117, 101>>
    [] s = "false" -> <<102, 97, 108, 115, 101>>
    [] s = "#include" -> <<35, 105, 110, 99, 108, 117, 100, 101>>
    [] s = "std::" -> <<115, 116, 100, 58, 58>>
    [] s = "vector<" -> <<118, 101, 99, 116, 111, 114, 60>>
    [] s = "cout <<" -> <<99, 111, 117, 116, 32, 60, 60>>
    [] s = "function" -> <<102, 117, 110, 99, 116, 105, 111, 110>>
    [] s = "const " -> <<99, 111, 110, 115, 116, 32>>
    [] s = "let " -> <<108, 101, 116, 32>>
    [] s = "=>" -> <<61, 62>>
    [] s = "var " -> <<118, 97, 114, 32>>
    [] s = "module.exports" -> <<109, 111, 100, 117, 108, 101, 46, 101, 120, 112, 111, 114, 116, 115>>
    [] s = ": number" -> <<58, 32, 110, 117, 109, 98, 101, 114>>
    [] s = ": string" -> <<58, 32, 115, 116, 114, 105, 110, 103>>
    [] s = "interface " -> <<105, 110, 116, 101, 114, 102, 97, 99, 101, 32>>
    [] s = "using system" -> <<117, 115, 105, 110, 103, 32, 115, 121, 115, 116, 101, 109>>
    [] s = "namespace " -> <<110, 97, 109, 101, 115, 112, 97, 99, 101, 32>>
    [] s = "func " -> <<102, 117, 110, 99, 32>>
    [] s = "https://neetcode.io/problems/3sum/question" ->
         <<104, 116, 116, 112, 115, 58, 47, 47, 110, 101, 101, 116, 99,
           111, 100, 101, 46, 105, 111, 47, 112, 114, 111, 98, 108, 101,
           109, 115, 47, 51, 115, 117, 109, 47, 113, 117, 101, 115, 116,
           105, 111, 110>>
    [] s = "https://neetcode.io/problems/unknown/question" ->
         <<104, 116, 116, 112, 115, 58, 47, 47, 110, 101, 101, 116, 99,
           111, 100, 101, 46, 105, 111, 47, 112, 114, 111, 98, 108, 101,
           109, 115, 47, 117, 110, 107, 110, 111, 119, 110, 47, 113, 117,
           101, 115, 116, 105, 111, 110>>

\* "Cafe'" stands for the four code units C a f U+00E9: a title outside ASCII.

\* new Date(timestamp).toISOString() on the timestamps of the model
\* (milliseconds: 1970-01-01 and 1970-01-02, midnight UTC)
ToISOString(ts) ==
  CASE ts = 0 -> <<49, 57, 55, 48, 45, 48, 49, 45, 48, 49, 84, 48, 48, 58,
                   48, 48, 58, 48, 48, 46, 48, 48, 48, 90>>
    [] ts = 86400000 -> <<49, 57, 55, 48, 45, 48, 49, 45, 48, 50, 84, 48, 48, 58, 48, 48, 58, 48, 48, 46, 48, 48, 48, 90>>

Slash == <<47>>
Hyphen == <<45>>
Dot == <<46>>

RECURSIVE Includes(_, _)
\* String.prototype.includes
Includes(s, sub) ==
  IF Len(sub) > Len(s) THEN FALSE
  ELSE IF SubSeq(s, 1, Len(sub)) = sub THEN TRUE
  ELSE Includes(Tail(s), sub)

\* String.prototype.toLowerCase, on the code units of the model's strings
ToLowerCase(s) ==
  [i \in 1..Len(s) |-> IF s[i] >= 65 /\ s[i] <= 90 THEN s[i] + 32 ELSE s[i]]

RECURSIVE PadStart(_, _, _)
\* String.prototype.padStart(n, c)
PadStart(s, n, c) == IF Len(s) >= n THEN s ELSE PadStart(<<c>> \o s, n, c)

(***************************************************************************)
(* github.ts: file contents and paths.                                     *)
(***************************************************************************)
BASE_PATH == "NeetCode"

\* a || b on strings: the empty string is falsy
OrElse(a, b) == IF a = "" THEN b ELSE a

\* cleanDescription on the descriptions of the model: none of them holds a
\* hint accordion, a doubled <br>, a Tags/Recommended/Hint/Topics section, a
\* tabs or app-hint element or a hidden element, so only trim() applies.
cleanDescription(html) == IF html = "" THEN "" ELSE html

formatCodeFile(submission) ==
  Chars("// NeetCode: ") \o Chars(submission.title)
    \o Chars("\n// Runtime: ") \o Chars(submission.runtime)
    \o Chars(", Memory: ") \o Chars(submission.memory)
    \o Chars("\n// Submitted: ") \o ToISOString(submission.timestamp)
    \o Chars("\n\n") \o Chars(submission.code) \o Chars("\n")

formatReadme(submission) ==
  LET questionUrl == OrElse(submission.url, "")
      title == OrElse(submission.title, "Problem")
      difficulty == OrElse(submission.difficulty, "Unknown")
      description == cleanDescription(OrElse(submission.description, ""))
  IN Chars("<h2><a href=\"") \o Chars(questionUrl) \o Chars("\">")
       \o Chars(title) \o Chars("</a></h2><h3>") \o Chars(difficulty)
       \o Chars("</h3><hr>") \o Chars(description)

extensionFor(language) ==
  LET normalized == ToLowerCase(Chars(language))
      inc(x) == Includes(normalized, Chars(x))
      is(x) == normalized = Chars(x)
  IN IF inc("python") \/ is("py") THEN "py"
     ELSE IF inc("java") \/ is("java") THEN "java"
     ELSE IF inc("cpp") \/ is("c++") \/ is("cpp") THEN "cpp"
     ELSE IF inc("javascript") \/ inc("node") \/ is("js") THEN "js"
     ELSE IF inc("typescript") \/ is("ts") THEN "ts"
     ELSE IF inc("c#") \/ is("csharp") \/ is("cs") THEN "cs"
     ELSE IF inc("go") \/ is("golang") THEN "go"
     ELSE IF inc("ruby") \/ is("rb") THEN "rb"
     ELSE IF inc("swift") THEN "swift"
     ELSE IF inc("kotlin") \/ is("kt") THEN "kt"
     ELSE IF inc("rust") \/ is("rs") THEN "rs"
     ELSE IF is("c") THEN "c"
     ELSE "txt"

\* the folder name without the base path: "0049-group-anagrams" or the slug
FolderName(submission) ==
  LET number == OrElse(submission.problemNumber, "")
      paddedNumber == IF number # "" THEN PadStart(Chars(number), 4, 48) ELSE <<>>
  IN IF paddedNumber # <<>>
       THEN paddedNumber \o Hyphen \o Chars(submission.slug)
       ELSE Chars(submission.slug)

buildFolder(submission) == Chars(BASE_PATH) \o Slash \o FolderName(submission)

\* a code file named by the slug alone
buildCodePath_SlugOnly(submission) ==
  Chars(BASE_PATH) \o Slash \o Chars(submission.slug) \o Slash
    \o Chars(submission.slug) \o Dot \o Chars(extensionFor(submission.language))

buildCodePath(submission) ==
  LET filename == FolderName(submission) \o Dot
                    \o Chars(extensionFor(submission.language))
  IN buildFolder(submission) \o Slash \o filename

buildReadmePath(submission) ==
  buildFolder(submission) \o Slash \o Chars("README.md")

(***************************************************************************)
(* toBase64: TextEncoder (UTF-8), one char per byte, btoa.  A base64       *)
(* string is the sequence of its 6-bit digits, 64 standing for "=".        *)
(***************************************************************************)
RECURSIVE Utf8Encode(_)
\* the bytes of each code unit in turn; the text is taken by halves to keep
\* the evaluation shallow
Utf8Encode(s) ==
  IF s = <<>> THEN <<>>
  ELSE IF Len(s) = 1
    THEN LET c == Head(s)
         IN  IF c < 128 THEN <<c>>
             ELSE IF c < 2048 THEN <<192 + (c \div 64), 128 + (c % 64)>>
             ELSE <<224 + (c \div 4096), 128 + ((c \div 64) % 64), 128 + (c % 64)>>
  ELSE LET half == Len(s) \div 2
       IN  Utf8Encode(SubSeq(s, 1, half)) \o Utf8Encode(SubSeq(s, half + 1, Len(s)))

RECURSIVE btoa(_)
\* four digits for each group of three bytes in turn, the last group padded;
\* the groups are taken by halves to keep the evaluation shallow
btoa(b) ==
  IF Len(b) = 0 THEN <<>>
  ELSE IF Len(b) = 1
    THEN <<b[1] \div 4, (b[1] % 4) * 16, 64, 64>>
  ELSE IF Len(b) = 2
    THEN <<b[1] \div 4, (b[1] % 4) * 16 + (b[2] \div 16), (b[2] % 16) * 4, 64>>
  ELSE IF Len(b) = 3
    THEN <<b[1] \div 4, (b[1] % 4) * 16 + (b[2] \div 16),
           (b[2] % 16) * 4 + (b[3] \div 64), b[3] % 64>>
  ELSE LET half == 3 * (((Len(b) + 2) \div 3) \div 2)
       IN  btoa(SubSeq(b, 1, half)) \o btoa(SubSeq(b, half + 1, Len(b)))

toBase64(text) == btoa(Utf8Encode(text))

(***************************************************************************)
(* The remote store (GitHub REST): a repository that may exist, and the    *)
(* file at each path.  A file is its decoded bytes, <<>> when absent; its  *)
(* revision token (sha) is a hash of its content, modelled without         *)
(* collisions as the content itself.                                       *)
(***************************************************************************)
RECURSIVE atob(_)
\* the store's decoding of the base64 content of a write request
\* (padding ends the content: the groups of four digits, taken by halves)
atob(d) ==
  IF Len(d) = 0 THEN <<>>
  ELSE IF Len(d) = 4
    THEN LET b1 == d[1] * 4 + (d[2] \div 16)
             b2 == (d[2] % 16) * 16 + (d[3] \div 4)
             b3 == (d[3] % 4) * 64 + d[4]
         IN IF d[3] = 64 THEN <<b1>>
            ELSE IF d[4] = 64 THEN <<b1, b2>>
            ELSE <<b1, b2, b3>>
  ELSE LET half == 4 * ((Len(d) \div 4) \div 2)
       IN  atob(SubSeq(d, 1, half)) \o atob(SubSeq(d, half + 1, Len(d)))

ShaOf(content) == content

\* the records handed to the commit engine
Submission1 ==
  [title |-> "Two Sum", slug |-> "two-sum", language |-> "python",
   code |-> "pass", runtime |-> "52ms", memory |-> "44.1MB", timestamp |-> 0,
   url |-> "https://neetcode.io/problems/two-sum/question",
   problemNumber |-> "1", difficulty |-> "Easy", description |-> "<p>Hi</p>"]
Submission2 ==
  [title |-> "Cafe'", slug |-> "two-sum", language |-> "java",
   code |-> "int x;", runtime |-> "n/a", memory |-> "n/a",
   timestamp |-> 86400000, url |-> "",
   problemNumber |-> "1", difficulty |-> "", description |-> ""]
Submission3 ==
  [title |-> "", slug |-> "3sum", language |-> "brainfuck",
   code |-> "+[-]", runtime |-> "n/a", memory |-> "n/a", timestamp |-> 0,
   url |-> "", problemNumber |-> "", difficulty |-> "", description |-> ""]
Submission4 ==
  [title |-> "3Sum", slug |-> "group-anagrams", language |-> "python",
   code |-> "pass", runtime |-> "n/a", memory |-> "n/a", timestamp |-> 0,
   url |-> "", problemNumber |-> "49", difficulty |-> "", description |-> ""]
Submission5 ==
  [title |-> "3Sum", slug |-> "two-sum", language |-> "javascript",
   code |-> "int x;", runtime |-> "n/a", memory |-> "n/a", timestamp |-> 0,
   url |-> "", problemNumber |-> "", difficulty |-> "", description |-> ""]
\* the records of the commit runs: Submission1 and Submission2 share their
\* README path and differ in their code path
Submissions == {Submission1, Submission2}
\* the records of the runs that look at the paths: with and without a
\* problem number, in a language with and without an extension of its own
Records == Submissions \cup {Submission3, Submission4, Submission5}

AllPaths ==
  {buildReadmePath(s) : s \in Records} \cup {buildCodePath(s) : s \in Records}

FaultStatuses == {403, 500}

VARIABLES
  settings,     \* chrome.storage.local "settings": what handleSubmission reads
  repoExists,   \* remote: the repository exists
  files,        \* remote: path -> content
  calls,        \* each handleSubmission call: its position and what it has done
  faults        \* remote failures injected so far

ghVars == <<settings, repoExists, files, calls, faults>>

Calls == 1..MaxCalls

NoResult == [ok |-> FALSE, error |-> "", status |-> 0]

\* pred, overlap and faulted record the call's history: the calls that had
\* returned when it started, the calls that ran while it ran, and whether
\* one of its requests met an injected failure.
IdleCall ==
  [pc |-> "idle", rec |-> Submission1, token |-> "", repo |-> "", file |-> 1,
   sha |-> <<>>, log |-> <<>>, result |-> NoResult,
   pred |-> {}, overlap |-> {}, faulted |-> FALSE]

Active(c) == calls[c].pc \notin {"idle", "returned"}

Ok(status) == status >= 200 /\ status <= 299

\* one request of a call and the status it got; a field the request does not
\* carry is empty
Request(method, url, path, name, private, sha, content, status) ==
  [method |-> method, url |-> url, path |-> path, name |-> name,
   private |-> private, sha |-> sha, content |-> content, status |-> status]

\* the statuses the store can answer with: the regular one, or an injected
\* failure while the budget lasts
Answers(regular) ==
  {regular} \cup (IF faults < MaxFaults THEN FaultStatuses ELSE {})

Return(call, result) == [call EXCEPT !.pc = "returned", !.result = result]

Throw(call, error, status) ==
  Return(call, [ok |-> FALSE, error |-> error, status |-> status])

\* the checks with the repository asked for before the token
StartSubmission_RepoBeforeAuth(c, submission) ==
  /\ calls[c].pc = "idle"
  /\ \A d \in Calls : d < c => calls[d].pc # "idle"
  /\ LET started == [calls[c] EXCEPT
                       !.rec = submission,
                       !.token = settings.accessToken,
                       !.repo = settings.repo,
                       !.pred = {d \in Calls : calls[d].pc = "returned"},
                       !.overlap = {d \in Calls : Active(d)}]
         next ==
           IF ~settings.uploadEnabled THEN Throw(started, "disabled", 0)
           ELSE IF settings.repo = "" THEN Throw(started, "missing-repo", 0)
           ELSE IF settings.accessToken = "" THEN Throw(started, "missing-auth", 0)
           ELSE [started EXCEPT !.pc = "ensureRepo"]
     IN calls' = [d \in Calls |->
                    IF d = c THEN next
                    ELSE IF Active(d) /\ next.pc # "returned"
                      THEN [calls[d] EXCEPT !.overlap = @ \cup {c}]
                    ELSE calls[d]]
  /\ UNCHANGED <<settings, repoExists, files, faults>>

\* handleSubmission up to its first request: getSettings and the three checks
StartSubmission(c, submission) ==
  /\ calls[c].pc = "idle"
  /\ \A d \in Calls : d < c => calls[d].pc # "idle"
  /\ LET started == [calls[c] EXCEPT
                       !.rec = submission,
                       !.token = settings.accessToken,
                       !.repo = settings.repo,
                       !.pred = {d \in Calls : calls[d].pc = "returned"},
                       !.overlap = {d \in Calls : Active(d)}]
         next ==
           IF ~settings.uploadEnabled THEN Throw(started, "disabled", 0)
           ELSE IF settings.accessToken = "" THEN Throw(started, "missing-auth", 0)
           ELSE IF settings.repo = "" THEN Throw(started, "missing-repo", 0)
           ELSE [started EXCEPT !.pc = "ensureRepo"]
     IN calls' = [d \in Calls |->
                    IF d = c THEN next
                    ELSE IF Active(d) /\ next.pc # "returned"
                      THEN [calls[d] EXCEPT !.overlap = @ \cup {c}]
                    ELSE calls[d]]
  /\ UNCHANGED <<settings, repoExists, files, faults>>

\* an ensureRepo that returns whatever the existence check answered, short
\* of 404
ensureRepoAfterCheck_NeverThrows(status) ==
  IF ~Ok(status) /\ status = 404 THEN "create" ELSE "return"

ensureRepoAfterCheck_CreateOnAnyFailure(status) ==
  IF ~Ok(status) THEN "create" ELSE "return"

\* ensureRepo: what follows the existence check
ensureRepoAfterCheck(status) ==
  IF ~Ok(status) /\ status = 404 THEN "create"
  ELSE IF ~Ok(status) THEN "throw"
  ELSE "return"

\* ensureRepo: GET /repos/{owner}/{name}
EnsureRepoCheck(c) ==
  /\ calls[c].pc = "ensureRepo"
  /\ \E status \in Answers(IF repoExists THEN 200 ELSE 404) :
       LET req == Request("GET", "repos", <<>>, calls[c].repo, FALSE, <<>>, <<>>,
                          status)
           call == [calls[c] EXCEPT
                      !.log = Append(@, req),
                      !.faulted = @ \/ status # (IF repoExists THEN 200 ELSE 404)]
           after == ensureRepoAfterCheck(status)
       IN /\ calls' = [calls EXCEPT ![c] =
                         IF after = "create" THEN [call EXCEPT !.pc = "createRepo"]
                         ELSE IF after = "throw"
                           THEN Throw(call, "Failed to read repository", status)
                         ELSE [call EXCEPT !.pc = "read", !.file = 1]]
          /\ faults' = IF status = (IF repoExists THEN 200 ELSE 404)
                         THEN faults ELSE faults + 1
  /\ UNCHANGED <<settings, repoExists, files>>

\* ensureRepo: POST /user/repos {name, private: true}
EnsureRepoCreate(c) ==
  /\ calls[c].pc = "createRepo"
  /\ \E status \in Answers(IF repoExists THEN 422 ELSE 201) :
       LET req == Request("POST", "user/repos", <<>>, calls[c].repo, TRUE, <<>>,
                          <<>>, status)
           regular == status = (IF repoExists THEN 422 ELSE 201)
           call == [calls[c] EXCEPT !.log = Append(@, req),
                                    !.faulted = @ \/ ~regular]
       IN /\ calls' = [calls EXCEPT ![c] =
                         IF ~Ok(status)
                           THEN Throw(call, "Failed to create repository", status)
                         ELSE [call EXCEPT !.pc = "read", !.file = 1]]
          /\ repoExists' = (repoExists \/ Ok(status))
          /\ faults' = IF regular THEN faults ELSE faults + 1
  /\ UNCHANGED <<settings, files>>

commitSubmissionFiles_CodeFirst == <<"code", "readme">>

\* commitSubmission: the files it commits, in its order
commitSubmissionFiles == <<"readme", "code">>

PathOf(submission, which) ==
  IF which = "readme" THEN buildReadmePath(submission)
  ELSE buildCodePath(submission)

TextOf(submission, which) ==
  IF which = "readme" THEN formatReadme(submission)
  ELSE formatCodeFile(submission)

\* what commitSubmission computes from each record of the model, computed once
CommitPlan ==
  [s \in Records |->
     [w \in {"readme", "code"} |->
        [path |-> PathOf(s, w), content |-> toBase64(TextOf(s, w))]]]

\* atob on the contents of the model, decoded once
Decoded ==
  [s \in Records |-> [w \in {"readme", "code"} |-> atob(CommitPlan[s][w].content)]]

StoreDecode(content) ==
  IF \E s \in Records, w \in {"readme", "code"} : CommitPlan[s][w].content = content
    THEN LET sw == CHOOSE sw \in Records \X {"readme", "code"} :
                     CommitPlan[sw[1]][sw[2]].content = content
         IN Decoded[sw[1]][sw[2]]
    ELSE atob(content)

\* getExistingFileSha: the sha it returns (<<>> for undefined), or a throw
\* a read that takes every failure for a missing file
getExistingFileSha_NeverThrows(status, sha) ==
  IF Ok(status) THEN [throws |-> FALSE, sha |-> sha]
  ELSE [throws |-> FALSE, sha |-> <<>>]

getExistingFileSha(status, sha) ==
  IF Ok(status) THEN [throws |-> FALSE, sha |-> sha]
  ELSE IF status = 404 THEN [throws |-> FALSE, sha |-> <<>>]
  ELSE [throws |-> TRUE, sha |-> <<>>]

commitFileBody_BlindWrite(content, existingSha) ==
  [content |-> content, sha |-> <<>>]

\* commitFile: the body of its write; sha <<>> stands for no sha field
commitFileBody(content, existingSha) ==
  [content |-> content, sha |-> IF existingSha # <<>> THEN existingSha ELSE <<>>]

commitFileThrows_Ignored(status) == FALSE

\* commitFile: whether the write's response makes it throw
commitFileThrows(status) == ~Ok(status)

\* the store's regular answer to PUT contents/{path}
PutStatus(path, sha) ==
  IF ~repoExists THEN 404
  ELSE IF files[path] = <<>> THEN (IF sha = <<>> THEN 201 ELSE 422)
  ELSE IF sha = <<>> THEN 422
  ELSE IF sha # ShaOf(files[path]) THEN 409
  ELSE 200

\* commitFile, first half: GET contents/{path} through getExistingFileSha
CommitFileRead(c) ==
  /\ calls[c].pc = "read"
  /\ LET path == CommitPlan[calls[c].rec][commitSubmissionFiles[calls[c].file]].path
         regular == IF repoExists /\ files[path] # <<>> THEN 200 ELSE 404
     IN \E status \in Answers(regular) :
          LET req == Request("GET", "contents", path, calls[c].repo, FALSE, <<>>,
                             <<>>, status)
              got == getExistingFileSha(status, ShaOf(files[path]))
              call == [calls[c] EXCEPT !.log = Append(@, req),
                                       !.faulted = @ \/ status # regular]
          IN /\ calls' = [calls EXCEPT ![c] =
                            IF got.throws
                              THEN Throw(call, "Failed to check existing file", status)
                            ELSE [call EXCEPT !.pc = "write", !.sha = got.sha]]
             /\ faults' = IF status = regular THEN faults ELSE faults + 1
  /\ UNCHANGED <<settings, repoExists, files>>

\* commitFile, second half: PUT contents/{path}; commitSubmission goes on to
\* its next file or returns
CommitFileWrite(c) ==
  /\ calls[c].pc = "write"
  /\ LET which == commitSubmissionFiles[calls[c].file]
         path == CommitPlan[calls[c].rec][which].path
         body == commitFileBody(CommitPlan[calls[c].rec][which].content, calls[c].sha)
         regular == PutStatus(path, body.sha)
     IN \E status \in Answers(regular) :
          LET req == Request("PUT", "contents", path, calls[c].repo, FALSE,
                             body.sha, body.content, status)
              call == [calls[c] EXCEPT !.log = Append(@, req), !.sha = <<>>,
                                       !.faulted = @ \/ status # regular]
          IN /\ calls' = [calls EXCEPT ![c] =
                            IF commitFileThrows(status)
                              THEN Throw(call, "Commit failed", status)
                            ELSE IF calls[c].file < Len(commitSubmissionFiles)
                              THEN [call EXCEPT !.pc = "read", !.file = @ + 1]
                            ELSE Return(call, [ok |-> TRUE, error |-> "", status |-> 0])]
             /\ files' = IF Ok(status)
                           THEN [files EXCEPT ![path] = StoreDecode(body.content)]
                           ELSE files
             /\ faults' = IF status = regular THEN faults ELSE faults + 1
  /\ UNCHANGED <<settings, repoExists>>

(***************************************************************************)
(* The content script's state (neetcode.ts, lines 27-35), the page it runs *)
(* in, its timers and its pushes.                                          *)
(***************************************************************************)
VARIABLES
  pageSlug,                \* the slug in window.location.pathname
  toolbarBtn,              \* the push button and its icon and text are in the DOM
  recentKeys,
  evictTimers,             \* the pending timers of markRecent, oldest first
  isMonitoringSubmission,
  lastFailedSubmission,
  lastAcceptedSubmission,
  currentProblemSlug,
  toolbarButtonState,
  lastRequestLanguage,
  pollers,                 \* the running acceptance loops: their attempts
  autoTimers,              \* pending timers of line 125
  successTimers,           \* pending 5 s timers of lines 459 and 497
  pushes,                  \* the pushes in flight: payload, call site, position
  begun,                   \* the pushes begun so far
  console,                 \* the last line by which a handler said that it pushes nothing
  bfsData,                 \* extractSubmission's generic search: the payload it is given
  bfsQueue,                \* its queue
  bfsSteps,                \* its steps
  bfsFound,                \* its foundAccepted
  bfsResult,               \* what it returned
  bfsPc,                   \* whether it is idle, in its loop or done
  pageEditor,              \* what extractPageCode finds: editor model, textareas, containers
  pageCode,                \* extractPageCode: its position and what it returned
  buttons,                 \* the elements with id neethub-toolbar-btn in the document
  injectTimers,            \* pending timers of injectToolbarButton (lines 242-244)
  mutations,               \* mutation records not yet delivered to the observer of line 250
  observing                \* injectToolbarButton has run: its observer is registered

csVars ==
  <<pageSlug, toolbarBtn, recentKeys, evictTimers, isMonitoringSubmission,
    lastFailedSubmission, lastAcceptedSubmission, currentProblemSlug,
    toolbarButtonState, lastRequestLanguage, pollers, autoTimers,
    successTimers, pushes, begun, console,
    bfsData, bfsQueue, bfsSteps, bfsFound, bfsResult, bfsPc,
    pageEditor, pageCode, buttons, injectTimers, mutations, observing>>

bfsVars == <<bfsData, bfsQueue, bfsSteps, bfsFound, bfsResult, bfsPc>>

domVars == <<pageEditor, pageCode, buttons, injectTimers, mutations, observing>>

vars == <<ghVars, csVars>>

\* a payload variable holding null
NoPayload ==
  [title |-> "", slug |-> "", language |-> "", code |-> "", runtime |-> "",
   memory |-> "", timestamp |-> 0, url |-> "", problemNumber |-> "",
   difficulty |-> "", description |-> ""]

\* the script as loaded on the page of a problem
ContentLoaded(slug) ==
  /\ pageSlug = slug
  /\ toolbarBtn = FALSE
  /\ recentKeys = {}
  /\ evictTimers = <<>>
  /\ isMonitoringSubmission = FALSE
  /\ lastFailedSubmission = NoPayload
  /\ lastAcceptedSubmission = NoPayload
  /\ currentProblemSlug = ""
  /\ toolbarButtonState = "idle"
  /\ lastRequestLanguage = ""
  /\ pollers = <<>>
  /\ autoTimers = 0
  /\ successTimers = 0
  /\ pushes = <<>>
  /\ begun = 0
  /\ console = ""
  /\ bfsData = <<>>
  /\ bfsQueue = <<>>
  /\ bfsSteps = 0
  /\ bfsFound = FALSE
  /\ bfsResult = FALSE
  /\ bfsPc = "idle"
  /\ pageEditor = [monaco |-> <<>>, textareas |-> <<>>, containers |-> <<>>]
  /\ pageCode = [pc |-> "idle", result |-> <<>>]
  /\ buttons = 0
  /\ injectTimers = {}
  /\ mutations = <<>>
  /\ observing = FALSE

Tokens == {"", "gho_token"}
RepoNames == {"", "solutions"}

InitCommit ==
  /\ settings \in [uploadEnabled : BOOLEAN, accessToken : Tokens, repo : RepoNames]
  /\ repoExists \in BOOLEAN
  /\ files = [p \in AllPaths |-> <<>>]
  /\ calls = [c \in Calls |-> IdleCall]
  /\ faults = 0
  /\ ContentLoaded("Two-Sum")

NextCommit ==
  /\ \E c \in Calls :
       \/ \E submission \in Submissions : StartSubmission(c, submission)
       \/ EnsureRepoCheck(c)
       \/ EnsureRepoCreate(c)
       \/ CommitFileRead(c)
       \/ CommitFileWrite(c)
  /\ UNCHANGED csVars

SpecCommit == InitCommit /\ [][NextCommit]_vars

\* the commit engine given every record, the settings complete
InitPaths ==
  /\ settings = [uploadEnabled |-> TRUE, accessToken |-> "gho_token", repo |-> "solutions"]
  /\ repoExists = TRUE
  /\ files = [p \in AllPaths |-> <<>>]
  /\ calls = [c \in Calls |-> IdleCall]
  /\ faults = 0
  /\ ContentLoaded("Two-Sum")

NextPaths ==
  /\ \E c \in Calls :
       \/ \E submission \in Records : StartSubmission(c, submission)
       \/ EnsureRepoCheck(c)
       \/ CommitFileRead(c)
       \/ CommitFileWrite(c)
  /\ UNCHANGED csVars

SpecPaths == InitPaths /\ [][NextPaths]_vars

(***************************************************************************)
(* background/index.ts: the message listener (lines 5-40) for the messages *)
(* other than a submission.                                                *)
(***************************************************************************)
\* a message: object is whether it is a non-null object, oauth whether it
\* has closeWebPage ("" when it has not, else what isSuccess tells), and
\* the payload read as a repository name or as the upload switch
Message(object, oauth, type, repo, enabled) ==
  [object |-> object, oauth |-> oauth, type |-> type, repo |-> repo,
   enabled |-> enabled]

OtherMessages ==
  {Message(FALSE, "", "", "", FALSE)}
    \cup {Message(TRUE, o, "", "", FALSE) : o \in {"success", "failure"}}
    \cup {Message(TRUE, "", ty, "", FALSE) : ty \in {"get-settings", "logout", "ping"}}
    \cup {Message(TRUE, "", "save-repo", "solutions", FALSE)}
    \cup {Message(TRUE, "", "toggle-upload", "", e) : e \in BOOLEAN}

Envelope(ok, error) == [ok |-> ok, error |-> error, status |-> 0]

\* line 29: the value of getSettings() is what the listener responds with
getSettingsResponse(stored) == stored

\* the settings a handler saves, having read `read` with getSettings:
\* {...settings, auth} (lines 51-54), {...settings, repo} (line 89),
\* {...settings, uploadEnabled} (line 95), {...settings, auth: undefined}
\* (clearAuth); the other messages save nothing
settingsSaved(read, message) ==
  IF ~message.object THEN read
  ELSE IF message.oauth = "success" THEN [read EXCEPT !.accessToken = "gho_token"]
  ELSE IF message.oauth = "failure" THEN read
  ELSE IF message.type = "save-repo" THEN [read EXCEPT !.repo = message.repo]
  ELSE IF message.type = "toggle-upload"
       THEN [read EXCEPT !.uploadEnabled = message.enabled]
  ELSE IF message.type = "logout" THEN [read EXCEPT !.accessToken = ""]
  ELSE read

\* the listener and handleMessage for one message: the response handed to
\* sendResponse and the settings saved; tabsFail is chrome.tabs.create
\* rejecting in handleOAuthComplete, which the catch of line 6 answers
HandleMessage(c, message, tabsFail) ==
  /\ calls[c].pc = "idle"
  /\ \A d \in Calls : d < c => calls[d].pc # "idle"
  /\ tabsFail => message.oauth = "success"
  /\ LET response ==
           IF ~message.object THEN Envelope(FALSE, "bad-message")
           ELSE IF message.oauth = "success"
                THEN (IF tabsFail THEN Envelope(FALSE, "tabs-error")
                      ELSE Envelope(TRUE, ""))
           ELSE IF message.oauth = "failure" THEN Envelope(FALSE, "auth-failed")
           ELSE IF message.type = "get-settings" THEN getSettingsResponse(settings)
           ELSE IF message.type \in {"save-repo", "toggle-upload", "logout"}
                THEN Envelope(TRUE, "")
           ELSE Envelope(FALSE, "unknown-message")
     IN  calls' = [calls EXCEPT ![c] =
                     [pc |-> "returned", rec |-> calls[c].rec, token |-> "",
                      repo |-> "", file |-> 1, sha |-> <<>>, log |-> <<>>,
                      result |-> response, pred |-> {}, overlap |-> {},
                      faulted |-> FALSE, message |-> message]]
  /\ settings' = settingsSaved(settings, message)
  /\ UNCHANGED <<repoExists, files, faults>>

\* the listener given every message: the submissions run through
\* handleSubmission, the others are answered at once
NextMessages ==
  /\ \E c \in Calls :
       \/ \E message \in OtherMessages, tabsFail \in BOOLEAN :
            HandleMessage(c, message, tabsFail)
       \/ StartSubmission(c, Submission1)
       \/ EnsureRepoCheck(c)
       \/ EnsureRepoCreate(c)
       \/ CommitFileRead(c)
       \/ CommitFileWrite(c)
  /\ UNCHANGED csVars

SpecMessages == InitCommit /\ [][NextMessages]_vars

(***************************************************************************)
(* Claims about the commit engine, under SpecCommit.                       *)
(***************************************************************************)
ReadmePath(c) == CommitPlan[calls[c].rec]["readme"].path
CodePath(c) == CommitPlan[calls[c].rec]["code"].path
Log(c) == calls[c].log

\* C1: in every commitSubmission the README is read and written, with
\* success, before any read or write of the code file is issued.
C1_ReadmeBeforeCode ==
  \A c \in Calls : \A i \in 1..Len(Log(c)) :
    (Log(c)[i].url = "contents" /\ Log(c)[i].path = CodePath(c)) =>
      \E j \in 1..(i-1) : \E k \in 1..(j-1) :
        /\ Log(c)[k].method = "GET" /\ Log(c)[k].path = ReadmePath(c)
        /\ (Ok(Log(c)[k].status) \/ Log(c)[k].status = 404)
        /\ Log(c)[j].method = "PUT" /\ Log(c)[j].path = ReadmePath(c)
        /\ Ok(Log(c)[j].status)

C1_Witness ==
  \E c \in Calls : \E i \in 1..Len(Log(c)) :
    Log(c)[i].method = "PUT" /\ Log(c)[i].path = CodePath(c)

\* a contents request whose response makes commitSubmission fail
Failing(req) ==
  /\ req.url = "contents"
  /\ \/ req.method = "GET" /\ ~Ok(req.status) /\ req.status # 404
     \/ req.method = "PUT" /\ ~Ok(req.status)

\* C5: a failing file read or write is the last request of its call, which
\* has thrown with that status: after a failed README write the code file is
\* not touched, and after a failed code write nothing is rolled back.
C5_FailFast ==
  \A c \in Calls : \A i \in 1..Len(Log(c)) :
    Failing(Log(c)[i]) =>
      /\ i = Len(Log(c))
      /\ calls[c].pc = "returned"
      /\ ~calls[c].result.ok
      /\ calls[c].result.status = Log(c)[i].status
      /\ calls[c].result.error =
           (IF Log(c)[i].method = "GET" THEN "Failed to check existing file"
            ELSE "Commit failed")
      /\ Log(c)[i].path = ReadmePath(c) =>
           \A j \in 1..Len(Log(c)) : Log(c)[j].path # CodePath(c)

C5_Witness ==
  \E c \in Calls : \E i \in 1..Len(Log(c)) : \E j \in 1..(i-1) :
    /\ Log(c)[i].method = "PUT" /\ Log(c)[i].path = CodePath(c)
    /\ ~Ok(Log(c)[i].status)
    /\ Log(c)[j].method = "PUT" /\ Log(c)[j].path = ReadmePath(c)
    /\ Ok(Log(c)[j].status)
    /\ files[ReadmePath(c)] = Utf8Encode(formatReadme(calls[c].rec))
    /\ calls[c].pc = "returned"

\* a call that ran alone, met no injected failure and passed the settings checks
Undisturbed(call) ==
  /\ call.overlap = {}
  /\ ~call.faulted
  /\ call.log # <<>>

\* c2 is the same record committed again right after c1
InSuccession(c1, c2) ==
  /\ c1 # c2
  /\ calls[c1].pc = "returned" /\ calls[c2].pc = "returned"
  /\ calls[c1].rec = calls[c2].rec
  /\ calls[c2].pred = calls[c1].pred \cup {c1}
  /\ Undisturbed(calls[c1]) /\ Undisturbed(calls[c2])

StoredAsFormatted(fs, submission) ==
  /\ fs[CommitPlan[submission]["readme"].path] = Utf8Encode(formatReadme(submission))
  /\ fs[CommitPlan[submission]["code"].path] = Utf8Encode(formatCodeFile(submission))

\* C6: a commit that runs undisturbed against a store that requires the
\* current revision token succeeds, the first time and when the identical
\* record is committed again, and when it returns the README and the code
\* file hold the freshly formatted content.
C6_RecommitSucceeds ==
  [][\A c \in Calls :
       (calls[c].pc # "returned" /\ calls'[c].pc = "returned"
          /\ Undisturbed(calls'[c]))
         => /\ calls'[c].result.ok
            /\ StoredAsFormatted(files', calls'[c].rec)]_ghVars

C6_Witness ==
  \E c1, c2 \in Calls :
    /\ InSuccession(c1, c2)
    /\ calls[c1].result.ok /\ calls[c2].result.ok
    /\ \E i \in 1..Len(Log(c2)) :
         Log(c2)[i].method = "PUT" /\ Log(c2)[i].sha # <<>>
    /\ StoredAsFormatted(files, calls[c2].rec)

\* C7: ensureRepo creates the repository (private, under repo.name) exactly
\* when the existence check answered 404; it returns when the check or the
\* creation succeeded and throws on every other answer.
C7_EnsureRepo ==
  \A c \in Calls :
    LET log == Log(c)
        checked == Len(log) >= 1
        created == Len(log) >= 2 /\ log[2].url = "user/repos"
        error == calls[c].result.error
    IN /\ \A i \in 1..Len(log) :
            /\ log[i].url = "repos" => i = 1
            /\ log[i].url = "user/repos" =>
                 /\ i = 2 /\ log[1].status = 404
                 /\ log[i].method = "POST"
                 /\ log[i].private /\ log[i].name = calls[c].repo
       /\ (checked /\ log[1].status = 404) =>
            (created \/ calls[c].pc = "createRepo")
       /\ (checked /\ Ok(log[1].status)) =>
            /\ calls[c].pc # "createRepo"
            /\ error \notin {"Failed to read repository", "Failed to create repository"}
       /\ (checked /\ ~Ok(log[1].status) /\ log[1].status # 404) =>
            /\ calls[c].pc = "returned" /\ Len(log) = 1
            /\ error = "Failed to read repository"
            /\ calls[c].result.status = log[1].status
       /\ (created /\ Ok(log[2].status)) =>
            error \notin {"Failed to read repository", "Failed to create repository"}
       /\ (created /\ ~Ok(log[2].status)) =>
            /\ calls[c].pc = "returned" /\ Len(log) = 2
            /\ error = "Failed to create repository"
            /\ calls[c].result.status = log[2].status

C7_Witness ==
  \E c \in Calls :
    /\ Len(Log(c)) >= 3
    /\ Log(c)[1].status = 404
    /\ Log(c)[2].url = "user/repos" /\ Ok(Log(c)[2].status)
    /\ Log(c)[3].url = "contents"

\* C15: handleSubmission returns {ok:false, error:"disabled"} when uploads
\* are disabled, else "missing-auth" when no access token is stored, else
\* "missing-repo" when no repository is configured; in these cases the call
\* issues no request and leaves the settings and the store as they were.
C15_SettingsChecks ==
  /\ [](\A c \in Calls :
          LET expected ==
                IF ~settings.uploadEnabled THEN "disabled"
                ELSE IF settings.accessToken = "" THEN "missing-auth"
                ELSE IF settings.repo = "" THEN "missing-repo"
                ELSE ""
          IN  (calls[c].pc # "idle" /\ expected # "") =>
                /\ calls[c].pc = "returned"
                /\ calls[c].result = [ok |-> FALSE, error |-> expected, status |-> 0]
                /\ Log(c) = <<>>)
  /\ [][\A c \in Calls :
          (calls[c].pc = "idle" /\ calls'[c].pc = "returned") =>
            UNCHANGED <<settings, repoExists, files, faults>>]_vars

\* a call has returned missing-repo with a token stored and uploads enabled
C15_Witness ==
  \E c \in Calls :
    /\ calls[c].pc = "returned"
    /\ calls[c].result.error = "missing-repo"
    /\ settings.accessToken # "" /\ settings.uploadEnabled

\* the call's i-th request was answered ok
AnsweredOk(c, i) == i <= Len(Log(c)) /\ Ok(Log(c)[i].status)

\* ensureRepo has returned to the call: its check or its creation was ok
EnsureRepoReturned(c) ==
  \/ AnsweredOk(c, 1) /\ Log(c)[1].url = "repos"
  \/ AnsweredOk(c, 2) /\ Log(c)[2].url = "user/repos"

\* commitSubmission has returned to the call: its last two writes are the
\* README's and the code file's, both ok
CommitReturned(c) ==
  LET n == Len(Log(c))
  IN  /\ n >= 4
      /\ Log(c)[n].method = "PUT" /\ Log(c)[n].path = CodePath(c) /\ AnsweredOk(c, n)
      /\ Log(c)[n - 2].method = "PUT" /\ Log(c)[n - 2].path = ReadmePath(c)
      /\ AnsweredOk(c, n - 2)

\* C16: a call of handleSubmission ends in a result: {ok:true} only when
\* ensureRepo and commitSubmission both returned, {ok:false, error: message}
\* when one of them threw; when ensureRepo threw, commitSubmission was not
\* called, so the call made no contents request.
C16_ErrorsReturned ==
  \A c \in Calls :
    /\ calls[c].pc = "returned" =>
         /\ calls[c].result.ok <=> (EnsureRepoReturned(c) /\ CommitReturned(c))
         /\ calls[c].result.ok <=> calls[c].result.error = ""
    /\ ~EnsureRepoReturned(c) =>
         \A i \in 1..Len(Log(c)) : Log(c)[i].url # "contents"
    /\ (Log(c) # <<>> /\ ~EnsureRepoReturned(c) /\ calls[c].pc = "returned") =>
         calls[c].result.error \in
           {"Failed to read repository", "Failed to create repository"}

\* ensureRepo has thrown on a failed creation and the call has returned the
\* message without a contents request
C16_Witness ==
  \E c \in Calls :
    /\ calls[c].pc = "returned"
    /\ calls[c].result.error = "Failed to create repository"
    /\ Len(Log(c)) = 2

\* the digits left-padded with zeros to four
ZeroPadded4(digits) ==
  IF Len(digits) >= 4 THEN digits
  ELSE [i \in 1..(4 - Len(digits)) |-> 48] \o digits

\* <N>-<slug>, or <slug> for a record without a problem number
ExpectedBasename(rec) ==
  IF rec.problemNumber # ""
  THEN ZeroPadded4(Chars(rec.problemNumber)) \o Chars("-") \o Chars(rec.slug)
  ELSE Chars(rec.slug)

\* the contents requests of a call: the paths they name
ContentsPaths(c) ==
  {Log(c)[i].path : i \in {j \in 1..Len(Log(c)) : Log(c)[j].url = "contents"}}

\* C18: the folder of a record is NeetCode/<N>-<slug>, <N> the problem
\* number left-padded with zeros to 4 digits, or NeetCode/<slug> without a
\* number; the code file is <folder>/<basename>.<ext> and the description
\* <folder>/README.md.  Every contents request of a call names one of the
\* two, and number "49" with slug "group-anagrams" gives the folder
\* 0049-group-anagrams.
C18_Paths ==
  \A c \in Calls :
    LET rec == calls[c].rec
        folder == Chars("NeetCode/") \o ExpectedBasename(rec)
        readme == folder \o Chars("/README.md")
        code == folder \o Slash \o ExpectedBasename(rec) \o Dot
                  \o Chars(extensionFor(rec.language))
    IN  /\ ContentsPaths(c) \subseteq {readme, code}
        /\ \A i \in 1..Len(Log(c)) :
             (Log(c)[i].url = "contents" /\ i > 1 /\ Log(c)[i - 1].url # "contents")
               => Log(c)[i].path = readme
        /\ calls[c].result.ok => ContentsPaths(c) = {readme, code}
        /\ rec = Submission4 =>
             ContentsPaths(c) \subseteq
               {Chars("NeetCode/0049-group-anagrams/README.md"),
                Chars("NeetCode/0049-group-anagrams/0049-group-anagrams.py")}

\* the record with number "49" and a record without a number were both
\* committed
C18_Witness ==
  \E c, d \in Calls :
    /\ calls[c].rec = Submission4 /\ calls[c].result.ok
    /\ calls[d].rec = Submission3 /\ calls[d].result.ok
    /\ files[Chars("NeetCode/0049-group-anagrams/0049-group-anagrams.py")] # <<>>

\* the extension the language tags are said to have
ClaimedExtension(tag) ==
  IF tag = "python" THEN "py"
  ELSE IF tag = "java" THEN "java"
  ELSE IF tag = "cpp" THEN "cpp"
  ELSE IF tag = "javascript" THEN "js"
  ELSE IF tag = "typescript" THEN "ts"
  ELSE IF tag = "csharp" THEN "cs"
  ELSE IF tag = "go" THEN "go"
  ELSE IF tag = "ruby" THEN "rb"
  ELSE IF tag = "swift" THEN "swift"
  ELSE IF tag = "kotlin" THEN "kt"
  ELSE IF tag = "rust" THEN "rs"
  ELSE IF tag = "c" THEN "c"
  ELSE "txt"

\* C19: extensionFor gives each language tag its own extension (python py,
\* java java, cpp cpp, javascript js, typescript ts, csharp cs, go go, ruby
\* rb, swift swift, kotlin kt, rust rs, c c) and txt to every other tag:
\* the code file written for a record ends in the extension of its tag.
C19_Extensions ==
  \A c \in Calls : \A i \in 1..Len(Log(c)) :
    (Log(c)[i].method = "PUT" /\ Log(c)[i].path # ReadmePath(c)) =>
      LET path == Log(c)[i].path
          ext == Dot \o Chars(ClaimedExtension(calls[c].rec.language))
      IN  /\ Len(path) > Len(ext)
          /\ SubSeq(path, Len(path) - Len(ext) + 1, Len(path)) = ext

(***************************************************************************)
(* neetcode.ts: text of the content script.                                *)
(***************************************************************************)
\* the strings the content script can produce by computing on text
Strings ==
  {"two-sum", "3sum", "unknown", "Two Sum", "Unknown",
   "https://neetcode.io/problems/two-sum/question",
   "https://neetcode.io/problems/3sum/question",
   "https://neetcode.io/problems/unknown/question"}

\* the string of the model with the given code units
Str(chars) == CHOOSE t \in Strings : Chars(t) = chars

IsSpace(c) == c \in {9, 10, 11, 12, 13, 32, 160}

RECURSIVE ReplaceSpaces(_)
\* String.prototype.replace(/\s+/g, '-')
ReplaceSpaces(s) ==
  IF s = <<>> THEN <<>>
  ELSE IF IsSpace(Head(s))
       THEN IF Len(s) > 1 /\ IsSpace(s[2]) THEN ReplaceSpaces(Tail(s))
            ELSE Hyphen \o ReplaceSpaces(Tail(s))
       ELSE <<Head(s)>> \o ReplaceSpaces(Tail(s))

\* s.toLowerCase().replace(/\s+/g, '-'), as in lines 143, 417, 613, 1378
NormalizeSlug(s) == IF s = "" THEN "" ELSE Str(ReplaceSpaces(ToLowerCase(Chars(s))))

\* s?.toLowerCase() === 'accepted'
IsAcceptedText(s) == ToLowerCase(Chars(s)) = Chars("accepted")

buildProblemUrl(slug) ==
  IF slug = "" THEN ""
  ELSE Str(Chars("https://neetcode.io/problems/") \o Chars(slug) \o Chars("/question"))

\* the 32-bit integers, as their halves
Int32 == (0..65535) \X (0..65535)

RECURSIVE hashLoop(_, _, _)
\* the loop of hash: h = (h << 5) - h + charCode; h |= 0, the 32-bit h held
\* as its two 16-bit halves, two's complement.  The sum is exact in a
\* double, so wrapping the shift first gives what h |= 0 gives
hashLoop(s, hi, lo) ==
  IF s = <<>> THEN <<hi, lo>>
  ELSE LET shiftedLo == lo * 32
           shiftedHi == hi * 32 + shiftedLo \div 65536
           sumLo == (shiftedLo % 65536) - lo + Head(s)
           sumHi == (shiftedHi % 65536) - hi
                      + (IF sumLo < 0 THEN -1 ELSE sumLo \div 65536)
           h == <<(sumHi + 65536) % 65536, (sumLo + 65536) % 65536>>
       IN  IF h \in Int32 THEN hashLoop(Tail(s), h[1], h[2]) ELSE <<>>

\* Math.abs of the signed 32-bit number with the given halves
MathAbs(h) ==
  IF h[1] < 32768 THEN h
  ELSE <<65535 - h[1] + (IF h[2] = 0 THEN 1 ELSE 0), (65536 - h[2]) % 65536>>

RECURSIVE toString36(_)
\* Number.prototype.toString(36), on the halves of a magnitude
toString36(m) ==
  LET mid == (m[1] % 36) * 65536 + m[2]
      q == <<m[1] \div 36, mid \div 36>>
      d == mid % 36
      digit == IF d < 10 THEN 48 + d ELSE 87 + d
  IN  IF q = <<0, 0>> THEN <<digit>> ELSE toString36(q) \o <<digit>>

hash(text) == toString36(MathAbs(hashLoop(Chars(text), 0, 0)))

(***************************************************************************)
(* neetcode.ts: JSON documents. A document is a sequence of nodes, the     *)
(* root first; an object or array node lists its members in order as       *)
(* <<key, index of the value>>. The empty sequence is undefined.           *)
(***************************************************************************)
Node(t, s, n, f) == [t |-> t, s |-> s, n |-> n, f |-> f]
JStr(s) == Node("str", s, 0, <<>>)
JNum(n) == Node("num", "", n, <<>>)
JObj(f) == Node("obj", "", 0, f)
JArr(f) == Node("arr", "", 0, f)

\* obj[key]: the index of the member, 0 for undefined
Member(doc, i, key) ==
  IF i = 0 THEN 0
  ELSE LET hits == {k \in 1..Len(doc[i].f) : doc[i].f[k][1] = key}
       IN  IF hits = {} THEN 0 ELSE doc[i].f[CHOOSE k \in hits : TRUE][2]

\* value && typeof value === 'object'
IsObject(doc, i) == i # 0 /\ doc[i].t \in {"obj", "arr"}

\* String.prototype.trim() is empty
IsBlank(s) == \A k \in 1..Len(Chars(s)) : IsSpace(Chars(s)[k])

RECURSIVE getString(_, _, _)
\* the first key holding a non-blank string; "" for undefined
getString(doc, i, keys) ==
  IF keys = <<>> THEN ""
  ELSE LET v == Member(doc, i, Head(keys))
       IN  IF v # 0 /\ doc[v].t = "str" /\ ~IsBlank(doc[v].s) THEN doc[v].s
           ELSE getString(doc, i, Tail(keys))

RECURSIVE getMetric(_, _, _)
getMetric(doc, i, keys) ==
  IF keys = <<>> THEN ""
  ELSE LET v == Member(doc, i, Head(keys))
       IN  IF v # 0 /\ doc[v].t = "str" /\ doc[v].s # "" THEN doc[v].s
           ELSE IF v # 0 /\ doc[v].t = "num" THEN ToString(doc[v].n)
           ELSE getMetric(doc, i, Tail(keys))

\* Date.parse on the model's strings; -1 for NaN
DateParse(s) == IF s = "1970-01-02T00:00:00.000Z" THEN 86400 * 1000 ELSE -1

RECURSIVE getTimestamp(_, _, _)
\* -1 for undefined; val > 10_000_000_000 is written on val's thousands
getTimestamp(doc, i, keys) ==
  IF keys = <<>> THEN -1
  ELSE LET v == Member(doc, i, Head(keys))
           val == doc[v].n
           big == \/ val \div 1000 > 10000000
                  \/ val \div 1000 = 10000000 /\ val % 1000 > 0
       IN  IF v # 0 /\ doc[v].t = "num" THEN (IF big THEN val ELSE val * 1000)
           ELSE IF v # 0 /\ doc[v].t = "str" /\ DateParse(doc[v].s) # -1
                THEN DateParse(doc[v].s)
           ELSE getTimestamp(doc, i, Tail(keys))

\* Date.now(): the instant of the model
DateNow == 86400 * 1000

\* a ?? b on timestamps
OrNow(ts) == IF ts = -1 THEN DateNow ELSE ts

\* detectLanguageFromCode. The codes of the model start with no digit, are
\* trimmed and shorter than 500 units, so firstLines is the lower-cased
\* code; none of them matches the three regular expressions of lines 1014,
\* 1016 and 1033-1034 without also holding one of the literals tested.
detectLanguageFromCode(code) ==
  LET firstLines == ToLowerCase(Chars(code))
      Has(lit) == Includes(firstLines, Chars(lit))
      HasAny(lits) == \E lit \in lits : Has(lit)
  IN  IF code = "" THEN "unknown"
      ELSE IF \/ HasAny({"public class", "private class", "class solution",
                      "import java.", "arraylist<", "hashmap<",
                      "public static void"})
              \/ Has("package ") /\ Has(";")
           THEN "java"
      ELSE IF \/ Has("def ")
              \/ Has("import ") /\ Has(":")
              \/ HasAny({"self.", "self,", "class solution:", "list[", ".items()",
                      ".append(", ".get(", "range(", "len(", "enumerate(",
                      ": list[", ": dict[", "none:"})
              \/ Has("true") /\ Has("false")
           THEN "python"
      ELSE IF HasAny({"#include", "std::", "vector<", "cout <<"}) THEN "cpp"
      ELSE IF HasAny({"function", "const ", "let ", "=>", "var ", "module.exports"})
           THEN IF HasAny({": number", ": string", "interface "}) THEN "typescript"
                ELSE "javascript"
      ELSE IF HasAny({"using system", "namespace "}) THEN "csharp"
      ELSE IF HasAny({"package ", "func "}) THEN "go"
      ELSE "unknown"

(***************************************************************************)
(* neetcode.ts: extractSubmission. dom holds what the page extractors      *)
(* return when they are called (title, problemNumber, difficulty,          *)
(* description, code, language: "" for undefined), rawSlug what            *)
(* extractPageSlug returns.                                                *)
(***************************************************************************)
Payload(title, slug, language, code, runtime, memory, timestamp, dom) ==
  [title |-> title, slug |-> slug, language |-> language, code |-> code,
   runtime |-> runtime, memory |-> memory, timestamp |-> timestamp,
   url |-> buildProblemUrl(slug), problemNumber |-> dom.problemNumber,
   difficulty |-> dom.difficulty, description |-> dom.description]

\* the result of extractSubmission: undefined, or payload and isAccepted
Undefined == [defined |-> FALSE, payload |-> NoPayload, isAccepted |-> FALSE]
Extraction(payload) == [defined |-> TRUE, payload |-> payload, isAccepted |-> TRUE]

\* the fields read at the top level of the request body only
requestFields_TopLevel(requestData) ==
  IF requestData = <<>> \/ ~IsObject(requestData, 1)
  THEN [code |-> "", lang |-> "", problemId |-> ""]
  ELSE [code |-> getString(requestData, 1,
                           <<"rawCode", "code", "solution", "answer">>),
        lang |-> getString(requestData, 1, <<"lang", "language", "langSlug">>),
        problemId |-> getString(requestData, 1,
                           <<"problemId", "slug", "titleSlug", "questionSlug">>)]

\* lines 1337-1348: code, lang and problemId of the request
requestFields(requestData) ==
  IF requestData = <<>> \/ ~IsObject(requestData, 1)
  THEN [code |-> "", lang |-> "", problemId |-> ""]
  ELSE LET data == Member(requestData, 1, "data")
           reqData == IF IsObject(requestData, data) THEN data ELSE 1
       IN  [code |-> getString(requestData, reqData,
                               <<"rawCode", "code", "solution", "answer">>),
            lang |-> getString(requestData, reqData,
                               <<"lang", "language", "langSlug">>),
            problemId |-> getString(requestData, reqData,
                               <<"problemId", "slug", "titleSlug", "questionSlug">>)]

\* item.status?.description, lower-cased, is 'accepted'
statusAccepted(doc, i) ==
  LET desc == Member(doc, Member(doc, i, "status"), "description")
  IN  desc # 0 /\ doc[desc].t = "str" /\ IsAcceptedText(doc[desc].s)

\* lines 1354-1399: the single-result shape
singleResult(data, req, dom, rawSlug) ==
  LET single == Member(data, 1, "data")
      finalLang == IF req.lang = "" \/ req.lang = "unknown"
                   THEN detectLanguageFromCode(req.code) ELSE req.lang
      slug == NormalizeSlug(OrElse(req.problemId, OrElse(rawSlug, "unknown")))
  IN  IF /\ single # 0 /\ data[single].t = "obj"
         /\ statusAccepted(data, single) /\ req.code # ""
      THEN Extraction(Payload(
             OrElse(dom.title, OrElse(req.problemId, "Unknown Problem")),
             slug, finalLang, req.code,
             OrElse(getMetric(data, single, <<"time", "wall_time">>), "n/a"),
             OrElse(getMetric(data, single, <<"memory">>), "n/a"),
             OrNow(getTimestamp(data, single, <<"finished_at", "created_at">>)),
             dom))
      ELSE Undefined

\* the array shape with the first accepted item taken
arrayResult_FirstAccepted(data, req, dom, rawSlug) ==
  LET arr == Member(data, 1, "data")
      items == IF arr # 0 /\ data[arr].t = "arr" THEN data[arr].f ELSE <<>>
      accepted == {k \in 1..Len(items) : statusAccepted(data, items[k][2])}
      item == items[CHOOSE k \in accepted : \A l \in accepted : l >= k][2]
      finalCode == IF req.code = "" THEN dom.code ELSE req.code
      lang == IF req.lang = "" THEN dom.language ELSE req.lang
      finalLang == IF lang = "" \/ lang = "unknown"
                   THEN detectLanguageFromCode(finalCode) ELSE lang
      slug == NormalizeSlug(OrElse(req.problemId, OrElse(rawSlug, "unknown")))
  IN  IF accepted # {} /\ finalCode # ""
      THEN Extraction(Payload(
             OrElse(dom.title, OrElse(req.problemId, "Unknown Problem")),
             slug, finalLang, finalCode,
             OrElse(getMetric(data, item, <<"time", "wall_time">>), "n/a"),
             OrElse(getMetric(data, item, <<"memory">>), "n/a"),
             OrNow(getTimestamp(data, item, <<"finished_at", "created_at">>)),
             dom))
      ELSE Undefined

\* lines 1402-1453: the array shape; the last accepted item counts
arrayResult(data, req, dom, rawSlug) ==
  LET arr == Member(data, 1, "data")
      items == IF arr # 0 /\ data[arr].t = "arr" THEN data[arr].f ELSE <<>>
      accepted == {k \in 1..Len(items) : statusAccepted(data, items[k][2])}
      item == items[CHOOSE k \in accepted : \A l \in accepted : l <= k][2]
      finalCode == IF req.code = "" THEN dom.code ELSE req.code
      lang == IF req.lang = "" THEN dom.language ELSE req.lang
      finalLang == IF lang = "" \/ lang = "unknown"
                   THEN detectLanguageFromCode(finalCode) ELSE lang
      slug == NormalizeSlug(OrElse(req.problemId, OrElse(rawSlug, "unknown")))
  IN  IF accepted # {} /\ finalCode # ""
      THEN Extraction(Payload(
             OrElse(dom.title, OrElse(req.problemId, "Unknown Problem")),
             slug, finalLang, finalCode,
             OrElse(getMetric(data, item, <<"time", "wall_time">>), "n/a"),
             OrElse(getMetric(data, item, <<"memory">>), "n/a"),
             OrNow(getTimestamp(data, item, <<"finished_at", "created_at">>)),
             dom))
      ELSE Undefined

\* the bound of the breadth-first search (line 1460)
MaxSteps == 200

\* the match of line 1480 without its last conjunct
genericMatch_WithoutAccepted(cCode, cTitle, cSlug, cLang, foundAccepted) ==
  cCode # "" /\ (cTitle # "" \/ cSlug # "") /\ cLang # ""

\* line 1480: the object visited is taken as the submission
genericMatch(cCode, cTitle, cSlug, cLang, foundAccepted) ==
  cCode # "" /\ (cTitle # "" \/ cSlug # "") /\ cLang # "" /\ foundAccepted

\* Object.values(candidate) that are objects, in order
objectValues(doc, members) ==
  LET IsObjectMember(m) == IsObject(doc, m[2])
      kept == SelectSeq(members, IsObjectMember)
  IN  [k \in 1..Len(kept) |-> kept[k][2]]

\* a search that looks at one node more
searchEnds_OneLate(queue, steps) == queue = <<>> \/ steps > MaxSteps

\* line 1460: the loop runs while (queue.length && steps < 200)
searchEnds(queue, steps) == queue = <<>> \/ steps >= MaxSteps

\* lines 1461-1505: one turn of the loop after steps += 1. returns: the
\* function returns result; else the loop goes on with queue and found
genericStep(data, queue, foundAccepted, dom) ==
  LET candidate == Head(queue)
      statusDesc == getString(data, candidate,
                              <<"status", "statusDescription", "description">>)
      found == foundAccepted \/ (statusDesc # "" /\ IsAcceptedText(statusDesc))
      cCode == getString(data, candidate, <<"code", "solution", "answer">>)
      cLang == getString(data, candidate, <<"lang", "language", "langSlug">>)
      cTitle == getString(data, candidate,
                          <<"title", "questionTitle", "problemTitle">>)
      cSlug == getString(data, candidate,
                         <<"slug", "titleSlug", "questionSlug", "problemSlug">>)
  IN  IF ~IsObject(data, candidate)
      THEN [returns |-> FALSE, result |-> Undefined, queue |-> Tail(queue),
            found |-> foundAccepted]
      ELSE IF genericMatch(cCode, cTitle, cSlug, cLang, found)
      THEN [returns |-> TRUE,
            result |-> Extraction(Payload(
              OrElse(cTitle, OrElse(cSlug, "Unknown Problem")),
              NormalizeSlug(OrElse(cSlug, OrElse(cTitle, "unknown"))),
              cLang, cCode,
              OrElse(getMetric(data, candidate, <<"runtime", "runTime", "time">>), "n/a"),
              OrElse(getMetric(data, candidate, <<"memory", "mem">>), "n/a"),
              OrNow(getTimestamp(data, candidate,
                                 <<"timestamp", "createdAt", "submittedAt">>)),
              dom)),
            queue |-> Tail(queue), found |-> found]
      ELSE [returns |-> FALSE, result |-> Undefined,
            queue |-> Tail(queue) \o objectValues(data, data[candidate].f),
            found |-> found]

RECURSIVE genericResult(_, _, _, _, _)
\* lines 1456-1508: the search through the other shapes
genericResult(data, queue, steps, foundAccepted, dom) ==
  IF searchEnds(queue, steps) THEN Undefined
  ELSE LET step == genericStep(data, queue, foundAccepted, dom)
       IN  IF step.returns THEN step.result
           ELSE genericResult(data, step.queue, steps + 1, step.found, dom)

extractSubmission(data, requestData, dom, rawSlug) ==
  IF data = <<>> \/ ~IsObject(data, 1) THEN Undefined
  ELSE LET req == requestFields(requestData)
           single == singleResult(data, req, dom, rawSlug)
           array == arrayResult(data, req, dom, rawSlug)
       IN  IF single.defined THEN single
           ELSE IF array.defined THEN array
           ELSE genericResult(data, <<1>>, 0, FALSE, dom)

(***************************************************************************)
(* The requests and responses the network observer is given, and the       *)
(* page.                                                                   *)
(***************************************************************************)
CodeA == "def two_sum(nums): pass"
CodeB == "class Solution { int[] f; }"

\* {data: {problemId: "two-sum", lang: "python", rawCode: CodeA}}
ReqNested ==
  <<JObj(<<<<"data", 2>>>>),
    JObj(<<<<"problemId", 3>>, <<"lang", 4>>, <<"rawCode", 5>>>>),
    JStr("two-sum"), JStr("python"), JStr(CodeA)>>
\* {rawCode: CodeB, lang: "unknown"}
ReqFlat == <<JObj(<<<<"rawCode", 2>>, <<"lang", 3>>>>), JStr(CodeB), JStr("unknown")>>
\* {data: {lang: "python", rawCode: CodeA}}
ReqCode ==
  <<JObj(<<<<"data", 2>>>>), JObj(<<<<"lang", 3>>, <<"rawCode", 4>>>>),
    JStr("python"), JStr(CodeA)>>
\* no request body
ReqNone == <<>>
\* {data: {problemId: "Two Sum", lang: "java", rawCode: CodeB}}
ReqSpaced ==
  <<JObj(<<<<"data", 2>>>>),
    JObj(<<<<"problemId", 3>>, <<"lang", 4>>, <<"rawCode", 5>>>>),
    JStr("Two Sum"), JStr("java"), JStr(CodeB)>>
\* {data: {problemId: "two-sum", lang: "java", rawCode: "int x;"}}
ReqShort ==
  <<JObj(<<<<"data", 2>>>>),
    JObj(<<<<"problemId", 3>>, <<"lang", 4>>, <<"rawCode", 5>>>>),
    JStr("two-sum"), JStr("java"), JStr("int x;")>>
\* {lang: "java"}: a language and no code
ReqLangOnly == <<JObj(<<<<"lang", 2>>>>), JStr("java")>>
\* {data: {rawCode: CodeB}}: code and no language
ReqCodeOnly == <<JObj(<<<<"data", 2>>>>), JObj(<<<<"rawCode", 3>>>>), JStr(CodeB)>>

Requests ==
  {ReqNested, ReqFlat, ReqCode, ReqNone, ReqSpaced, ReqShort, ReqLangOnly,
   ReqCodeOnly}

\* {data: {status: {description: desc}, time: "52ms", memory: "44.1MB"}}
RespSingle(desc) ==
  <<JObj(<<<<"data", 2>>>>),
    JObj(<<<<"status", 3>>, <<"time", 4>>, <<"memory", 5>>>>),
    JObj(<<<<"description", 6>>>>), JStr("52ms"), JStr("44.1MB"), JStr(desc)>>
\* {data: {status: "Processing"}}
RespPending == <<JObj(<<<<"data", 2>>>>), JObj(<<<<"status", 3>>>>), JStr("Processing")>>
\* {data: [{status: {description: d1}, time: "52ms", memory: "44.1MB"},
\*         {status: {description: d2}}]}
RespArray(d1, d2) ==
  <<JObj(<<<<"data", 2>>>>), JArr(<<<<"0", 3>>, <<"1", 4>>>>),
    JObj(<<<<"status", 5>>, <<"time", 7>>, <<"memory", 8>>>>),
    JObj(<<<<"status", 6>>>>),
    JObj(<<<<"description", 9>>>>), JObj(<<<<"description", 10>>>>),
    JStr("52ms"), JStr("44.1MB"), JStr(d1), JStr(d2)>>
\* {result: {status: st, code: CodeB, language: "java", titleSlug: "two-sum"}}
RespGeneric(st) ==
  <<JObj(<<<<"result", 2>>>>),
    JObj(<<<<"status", 3>>, <<"code", 4>>, <<"language", 5>>, <<"titleSlug", 6>>>>),
    JStr(st), JStr(CodeB), JStr("java"), JStr("two-sum")>>
\* {submission: {code: CodeB, lang: "java", title: "Two Sum"}, verdict: {status: st}}
RespVerdictLast(st) ==
  <<JObj(<<<<"submission", 2>>, <<"verdict", 3>>>>),
    JObj(<<<<"code", 4>>, <<"lang", 5>>, <<"title", 6>>>>),
    JObj(<<<<"status", 7>>>>),
    JStr(CodeB), JStr("java"), JStr("Two Sum"), JStr(st)>>
\* {verdict: {status: st}, submission: {code: CodeB, lang: "java", title: "Two Sum"}}
RespVerdictFirst(st) ==
  <<JObj(<<<<"verdict", 2>>, <<"submission", 3>>>>),
    JObj(<<<<"status", 7>>>>),
    JObj(<<<<"code", 4>>, <<"lang", 5>>, <<"title", 6>>>>),
    JStr(CodeB), JStr("java"), JStr("Two Sum"), JStr(st)>>
\* {data: [{status: {description: "Accepted"}, time: "52ms", memory: "44.1MB",
\*          finished_at: 1},
\*         {status: {description: "ACCEPTED"}, time: "60ms", memory: "45MB",
\*          finished_at: 2},
\*         {status: {description: "Wrong Answer"}, time: "70ms", memory: "46MB",
\*          finished_at: 3}]}
RespArrayThree ==
  <<JObj(<<<<"data", 2>>>>), JArr(<<<<"0", 3>>, <<"1", 4>>, <<"2", 5>>>>),
    JObj(<<<<"status", 6>>, <<"time", 9>>, <<"memory", 10>>, <<"finished_at", 11>>>>),
    JObj(<<<<"status", 7>>, <<"time", 12>>, <<"memory", 13>>, <<"finished_at", 14>>>>),
    JObj(<<<<"status", 8>>, <<"time", 15>>, <<"memory", 16>>, <<"finished_at", 17>>>>),
    JObj(<<<<"description", 18>>>>), JObj(<<<<"description", 19>>>>),
    JObj(<<<<"description", 20>>>>),
    JStr("52ms"), JStr("44.1MB"), JNum(1), JStr("60ms"), JStr("45MB"), JNum(2),
    JStr("70ms"), JStr("46MB"), JNum(3),
    JStr("Accepted"), JStr("ACCEPTED"), JStr("Wrong Answer")>>
\* an object that holds itself: o = {}; o.self = o
RespCyclic == <<JObj(<<<<"self", 1>>>>)>>
\* {"1": {}, ..., "n": {}, result: {status: "Accepted", code: CodeB,
\*  language: "java", titleSlug: "two-sum"}}: the search takes the root
\* first, then the n empty objects, then the result
RespWide(n) ==
  <<JObj([k \in 1..n + 1 |->
            IF k <= n THEN <<ToString(k), k + 1>> ELSE <<"result", n + 2>>])>>
    \o [k \in 1..n |-> JObj(<<>>)]
    \o <<JObj(<<<<"status", n + 3>>, <<"code", n + 4>>, <<"language", n + 5>>,
               <<"titleSlug", n + 6>>>>),
          JStr("Accepted"), JStr(CodeB), JStr("java"), JStr("two-sum")>>
\* a response that is a JSON string
RespText == <<JStr("Accepted")>>

Verdicts == {"Accepted", "ACCEPTED", "Wrong Answer"}

Responses ==
  {RespSingle(d) : d \in Verdicts} \cup {RespPending, RespText}
    \cup {RespArray(d[1], d[2]) : d \in {<<"Accepted", "Wrong Answer">>,
                                         <<"Wrong Answer", "Wrong Answer">>}}
    \cup {RespArrayThree}
    \cup {RespGeneric(d) : d \in {"Accepted", "Wrong Answer"}}
    \cup {RespVerdictLast("Accepted"), RespVerdictFirst("Accepted"),
          RespVerdictFirst("Wrong Answer")}

\* the payloads the search is run on step by step: a cyclic one, two with
\* more than 200 nodes, the result the 200th and the 201st node taken from
\* the queue, and those of the other shapes
SearchDocs ==
  {RespCyclic, RespWide(MaxSteps - 2), RespWide(MaxSteps - 1),
   RespGeneric("Accepted"), RespGeneric("Wrong Answer"),
   RespVerdictLast("Accepted"), RespVerdictFirst("Accepted")}

\* the problem pages: the slug as the URL spells it
PageSlugs == {"Two-Sum", "3sum"}

\* what the extractors read from a page that has rendered, and from one that
\* has not; the page of 3sum shows no number, the editor holds CodeA
DomRendered(rawSlug) ==
  IF rawSlug = "3sum"
  THEN [title |-> "3Sum", problemNumber |-> "", difficulty |-> "Easy",
        description |-> "<p>Hi</p>", code |-> CodeA, language |-> "python"]
  ELSE [title |-> "Two Sum", problemNumber |-> "1", difficulty |-> "Easy",
        description |-> "<p>Hi</p>", code |-> CodeA, language |-> "python"]
DomBare ==
  [title |-> "", problemNumber |-> "", difficulty |-> "", description |-> "",
   code |-> "", language |-> ""]
Doms(rawSlug) == {DomRendered(rawSlug), DomBare}

\* extractSubmission on the inputs of the model
Extracted ==
  [data \in Responses |-> [requestData \in Requests |-> [rawSlug \in PageSlugs |->
     [rendered \in BOOLEAN |->
        extractSubmission(data, requestData,
                          IF rendered THEN DomRendered(rawSlug) ELSE DomBare,
                          rawSlug)]]]]

(***************************************************************************)
(* neetcode.ts: enrichment (lines 601-681).                                *)
(***************************************************************************)
isLikelySubmissionDescription(description) ==
  LET text == ToLowerCase(Chars(description))
  IN  \E lit \in {"submission", "submitted at", "test cases"} :
        Includes(text, Chars(lit))

\* line 622: the title is a submission status, not a problem's name
isSubmissionStatus(title) ==
  /\ title # ""
  /\ \E st \in {"accepted", "rejected", "pending", "wrong answer",
                "time limit exceeded"} : ToLowerCase(Chars(title)) = Chars(st)

RECURSIVE capitalizeWords(_, _)
\* lines 635-638: split('-'), upper-case each first letter, join(' ')
capitalizeWords(s, first) ==
  IF s = <<>> THEN <<>>
  ELSE IF Head(s) = 45 THEN <<32>> \o capitalizeWords(Tail(s), TRUE)
  ELSE <<IF first /\ Head(s) >= 97 /\ Head(s) <= 122 THEN Head(s) - 32 ELSE Head(s)>>
         \o capitalizeWords(Tail(s), FALSE)

\* lines 612-619: what enrichSubmissionPayload settles before it may fetch
enrichStart(payload, rawPageSlug) ==
  LET slug == NormalizeSlug(OrElse(payload.slug, rawPageSlug))
  IN  [payload EXCEPT
         !.slug = OrElse(slug, payload.slug),
         !.url = OrElse(payload.url, buildProblemUrl(slug)),
         !.description = IF payload.description # ""
                            /\ isLikelySubmissionDescription(payload.description)
                         THEN "" ELSE payload.description]

\* line 624
needsFetch(started) ==
  \/ isSubmissionStatus(started.title)
  \/ started.title = "" \/ started.description = ""
  \/ started.difficulty = "" \/ started.problemNumber = ""

\* lines 626-630: the fields after the fetch
mergeInfo(started, info) ==
  [started EXCEPT
     !.title = OrElse(IF isSubmissionStatus(started.title) THEN info.title
                      ELSE started.title, info.title),
     !.difficulty = OrElse(started.difficulty, info.difficulty),
     !.description = OrElse(started.description, info.description),
     !.problemNumber = OrElse(started.problemNumber, info.problemNumber)]

\* an enrichment that makes no title from the slug
enrichFinish_NoTitleFromSlug(merged, started) ==
  [merged EXCEPT !.title = OrElse(merged.title, started.title)]

\* lines 633-649: the title made from the slug when there is still none,
\* and `title || payload.title`; started has the title of the payload
enrichFinish(merged, started) ==
  [merged EXCEPT
     !.title = IF merged.title = "" /\ merged.slug # ""
               THEN Str(capitalizeWords(Chars(merged.slug), TRUE))
               ELSE OrElse(merged.title, started.title)]

\* fetchProblemInfo: nothing (no slug, a failed fetch, a page without the
\* elements), or what the problem's page holds
EmptyInfo == [title |-> "", difficulty |-> "", description |-> "", problemNumber |-> ""]
PageInfo(slug) ==
  LET dom == DomRendered(slug)
  IN  [title |-> dom.title, difficulty |-> dom.difficulty,
       description |-> dom.description, problemNumber |-> dom.problemNumber]
Infos(slug) == {EmptyInfo} \cup (IF slug \in {"two-sum", "3sum"} THEN {PageInfo(slug)} ELSE {})

(***************************************************************************)
(* neetcode.ts: the fingerprint store (lines 1552-1574).                   *)
(***************************************************************************)
RECENT_TTL_MS == 10 * 60 * 1000

\* the fingerprints of the slugs and codes of the model, computed once
Keys ==
  [slug \in {"", "two-sum", "3sum", "unknown"} |->
     [code \in {CodeA, CodeB, "pass", "int x;"} |->
        Chars(slug) \o Hyphen \o hash(code)]]

\* a fingerprint that takes the language in
buildKey_WithLanguage(payload) ==
  Keys[payload.slug][payload.code] \o Hyphen \o Chars(payload.language)

\* `${payload.slug}-${hash(payload.code)}`
buildKey(payload) == Keys[payload.slug][payload.code]

(***************************************************************************)
(* neetcode.ts: the push orchestrator.                                     *)
(***************************************************************************)
MaxPushes == 3       \* pushes begun per behaviour
MaxLoops == 1        \* acceptance loops running or with their timer of line 125 pending
MaxPolls == 1        \* ticks of one loop that see no acceptance

null == NoPayload

\* isRecent (lines 1552-1555); the timers of markRecent keep recentKeys to
\* the fingerprints marked within the TTL
isRecent(payload) == buildKey(payload) \in recentKeys

\* a push in flight: its payload, the call site it came from (network,
\* auto-trigger, postMessage, manual, retry) and its position (enrich:
\* awaiting the fetch of fetchProblemInfo; awaiting: message sent, awaiting
\* the background's response)
Push(payload, via, pc) == [payload |-> payload, via |-> via, pc |-> pc]

Without(seq, k) == SubSeq(seq, 1, k - 1) \o SubSeq(seq, k + 1, Len(seq))

\* updateToolbarStatus (lines 480-508): the toolbarButtonState it leaves;
\* without the icon and text elements it returns at line 484
updateToolbarStatus(state) == IF toolbarBtn THEN state ELSE toolbarButtonState

\* checkAndResetProblemState (lines 258-271): the values it leaves
checkAndResetProblemState ==
  IF pageSlug # "" /\ pageSlug # currentProblemSlug
  THEN [slug |-> pageSlug, accepted |-> null, failed |-> null,
        monitoring |-> FALSE, changed |-> TRUE]
  ELSE [slug |-> currentProblemSlug, accepted |-> lastAcceptedSubmission,
        failed |-> lastFailedSubmission, monitoring |-> isMonitoringSubmission,
        changed |-> FALSE]

\* line 415 without the comparison of the slugs
hasSessionAccepted_AnySlug(accepted, currentSlug) ==
  accepted # null /\ currentSlug # ""

\* lines 415-417
hasSessionAccepted(accepted, currentSlug) ==
  accepted # null /\ currentSlug # "" /\ accepted.slug = NormalizeSlug(currentSlug)

\* doToolbarPush (lines 438-446), up to its await
doToolbarPush(submission, via) ==
  /\ toolbarButtonState' = "pushing"
  /\ pushes' = Append(pushes, Push(submission, via, "awaiting"))
  /\ begun' = begun + 1

\* the click handler of the push button (lines 399-435)
ToolbarClick ==
  /\ toolbarBtn
  /\ begun < MaxPushes
  /\ IF toolbarButtonState = "pushing"
     THEN UNCHANGED csVars
     ELSE LET after == checkAndResetProblemState
          IN  /\ currentProblemSlug' = after.slug
              /\ lastAcceptedSubmission' = after.accepted
              /\ lastFailedSubmission' = after.failed
              /\ isMonitoringSubmission' = after.monitoring
              /\ IF toolbarButtonState = "error" /\ after.failed # null
                 THEN /\ doToolbarPush(after.failed, "retry")
                      /\ UNCHANGED console
                 ELSE IF hasSessionAccepted(after.accepted, pageSlug)
                 THEN /\ doToolbarPush(after.accepted, "manual")
                      /\ UNCHANGED console
                 ELSE /\ console' = "Manual push blocked"
                      /\ UNCHANGED <<toolbarButtonState, pushes, begun>>
              /\ UNCHANGED <<pageSlug, toolbarBtn, recentKeys, evictTimers,
                             lastRequestLanguage, pollers, autoTimers, successTimers>>
  /\ UNCHANGED <<ghVars, bfsVars, domVars>>

\* doToolbarPush after its await (lines 448-476); a rejected sendMessage
\* takes the assignments of a response that is not ok
ToolbarResponse(i, ok) ==
  /\ pushes[i].pc = "awaiting"
  /\ pushes[i].via \in {"manual", "retry"}
  /\ pushes' = Without(pushes, i)
  /\ UNCHANGED begun
  /\ IF ok
     THEN /\ toolbarButtonState' = "success"
          /\ lastFailedSubmission' = null
          /\ successTimers' = successTimers + 1
     ELSE /\ toolbarButtonState' = "error"
          /\ lastFailedSubmission' = pushes[i].payload
          /\ UNCHANGED successTimers
  /\ UNCHANGED <<pageSlug, toolbarBtn, recentKeys, evictTimers,
                 isMonitoringSubmission, lastAcceptedSubmission,
                 currentProblemSlug, lastRequestLanguage, pollers, autoTimers,
                 console>>
  /\ UNCHANGED <<ghVars, bfsVars, domVars>>

\* the 5 s timers of lines 459-464 and 497-502
SuccessTimer ==
  /\ successTimers > 0
  /\ successTimers' = successTimers - 1
  /\ toolbarButtonState' =
       IF toolbarButtonState = "success" THEN "idle" ELSE toolbarButtonState
  /\ UNCHANGED <<pageSlug, toolbarBtn, recentKeys, evictTimers,
                 isMonitoringSubmission, lastFailedSubmission,
                 lastAcceptedSubmission, currentProblemSlug,
                 lastRequestLanguage, pollers, autoTimers, pushes, begun, console>>
  /\ UNCHANGED <<ghVars, bfsVars, domVars>>

\* the timer of markRecent (line 1560); equal delays fire oldest first
EvictTimer ==
  /\ evictTimers # <<>>
  /\ recentKeys' = recentKeys \ {Head(evictTimers)}
  /\ evictTimers' = Tail(evictTimers)
  /\ UNCHANGED <<pageSlug, toolbarBtn, isMonitoringSubmission,
                 lastFailedSubmission, lastAcceptedSubmission,
                 currentProblemSlug, toolbarButtonState, lastRequestLanguage,
                 pollers, autoTimers, successTimers, pushes, begun, console>>
  /\ UNCHANGED <<ghVars, bfsVars, domVars>>

\* pushSubmission up to its await (lines 1283-1291), after the assignment of
\* line 607 or 174
sendPush(enriched, via) ==
  /\ lastAcceptedSubmission' = enriched
  /\ toolbarButtonState' = updateToolbarStatus("pushing")
  /\ pushes' = Append(pushes, Push(enriched, via, "awaiting"))
  /\ begun' = begun + 1

\* enrichSubmissionPayload and what follows it without another event in
\* between: up to the fetch of line 666 when line 624 asks for one, else up
\* to the await of pushSubmission
beginPush(payload, via) ==
  LET started == enrichStart(payload, pageSlug)
  IN  IF needsFetch(started)
      THEN /\ pushes' = Append(pushes, Push(started, via, "enrich"))
           /\ begun' = begun + 1
           /\ UNCHANGED <<lastAcceptedSubmission, toolbarButtonState>>
      ELSE sendPush(enrichFinish(started, started), via)

\* handleCandidate (lines 1253-1281), called by the observers of fetch and
\* XMLHttpRequest
HandleCandidate(data, requestData, rendered) ==
  LET result == Extracted[data][requestData][pageSlug][rendered]
      payload == result.payload
  IN  /\ begun < MaxPushes
      /\ IF ~result.defined
         THEN /\ console' = "extractSubmission returned null"
              /\ UNCHANGED <<lastRequestLanguage, lastAcceptedSubmission,
                             toolbarButtonState, pushes, begun>>
         ELSE /\ lastRequestLanguage' = payload.language
              /\ IF ~result.isAccepted
                 THEN /\ console' = "submission not accepted, skipping auto-push"
                      /\ UNCHANGED <<lastAcceptedSubmission, toolbarButtonState, pushes, begun>>
                 ELSE IF isRecent(payload)
                 THEN /\ console' = "duplicate submission skipped"
                      /\ UNCHANGED <<lastAcceptedSubmission, toolbarButtonState, pushes, begun>>
                 ELSE /\ beginPush(payload, "network")
                      /\ UNCHANGED console
      /\ UNCHANGED <<pageSlug, toolbarBtn, recentKeys, evictTimers,
                     isMonitoringSubmission, lastFailedSubmission,
                     currentProblemSlug, pollers, autoTimers, successTimers>>
      /\ UNCHANGED <<ghVars, bfsVars, domVars>>

\* the payloads the page posts: a whole one, one with a status for a title
\* and no slug, one without code
Posted ==
  {Extracted[RespSingle("Accepted")][ReqCode]["Two-Sum"][TRUE].payload,
   [null EXCEPT !.code = CodeB, !.title = "Accepted"],
   null}

\* the message listener (lines 59-73), for a submission message of the page
PostMessage(payload) ==
  /\ begun < MaxPushes
  /\ IF payload.code = ""
     THEN /\ console' = "submission payload missing code"
          /\ UNCHANGED <<lastAcceptedSubmission, toolbarButtonState, pushes, begun>>
     ELSE /\ beginPush(payload, "postMessage")
          /\ UNCHANGED console
  /\ UNCHANGED <<pageSlug, toolbarBtn, recentKeys, evictTimers,
                 isMonitoringSubmission, lastFailedSubmission,
                 currentProblemSlug, lastRequestLanguage, pollers, autoTimers,
                 successTimers>>
  /\ UNCHANGED <<ghVars, bfsVars, domVars>>

\* the fetch of fetchProblemInfo has ended: the rest of
\* enrichSubmissionPayload, then line 607 or 174, then pushSubmission up to
\* its await
FetchDone(i, info) ==
  /\ pushes[i].pc = "enrich"
  /\ LET enriched == enrichFinish(mergeInfo(pushes[i].payload, info), pushes[i].payload)
     IN  /\ lastAcceptedSubmission' = enriched
         /\ toolbarButtonState' = updateToolbarStatus("pushing")
         /\ pushes' = [pushes EXCEPT ![i].payload = enriched, ![i].pc = "awaiting"]
  /\ UNCHANGED begun
  /\ UNCHANGED <<pageSlug, toolbarBtn, recentKeys, evictTimers,
                 isMonitoringSubmission, lastFailedSubmission,
                 currentProblemSlug, lastRequestLanguage, pollers, autoTimers,
                 successTimers, console>>
  /\ UNCHANGED <<ghVars, bfsVars, domVars>>

\* pushSubmission after its await (lines 1292-1319); a rejected sendMessage
\* takes the assignments of a response that is not ok
PushResponse(i, ok) ==
  /\ pushes[i].pc = "awaiting"
  /\ pushes[i].via \in {"network", "auto-trigger", "postMessage"}
  /\ pushes' = Without(pushes, i)
  /\ UNCHANGED begun
  /\ IF ok
     THEN /\ recentKeys' = recentKeys \cup {buildKey(pushes[i].payload)}
          /\ evictTimers' = Append(evictTimers, buildKey(pushes[i].payload))
          /\ toolbarButtonState' = updateToolbarStatus("success")
          /\ successTimers' = IF toolbarBtn THEN successTimers + 1 ELSE successTimers
          /\ UNCHANGED lastFailedSubmission
     ELSE /\ lastFailedSubmission' = pushes[i].payload
          /\ toolbarButtonState' = updateToolbarStatus("error")
          /\ UNCHANGED <<recentKeys, evictTimers, successTimers>>
  /\ UNCHANGED <<pageSlug, toolbarBtn, isMonitoringSubmission,
                 lastAcceptedSubmission, currentProblemSlug,
                 lastRequestLanguage, pollers, autoTimers, console>>
  /\ UNCHANGED <<ghVars, bfsVars, domVars>>

\* the attempts after which a loop gives up (line 105)
maxAttempts == 60

\* startMonitoringForAcceptance (lines 94-106), with at most limit loops
\* and timers of line 125 in a behaviour
startMonitoringForAcceptance(limit) ==
  /\ isMonitoringSubmission \/ Len(pollers) + autoTimers < limit
  /\ IF isMonitoringSubmission
     THEN UNCHANGED <<isMonitoringSubmission, pollers>>
     ELSE /\ isMonitoringSubmission' = TRUE
          /\ pollers' = Append(pollers, 0)
  /\ UNCHANGED <<pageSlug, toolbarBtn, recentKeys, evictTimers,
                 lastFailedSubmission, lastAcceptedSubmission,
                 currentProblemSlug, toolbarButtonState, lastRequestLanguage,
                 autoTimers, successTimers, pushes, begun, console>>
  /\ UNCHANGED <<ghVars, bfsVars, domVars>>

\* a click on Submit (lines 77-91)
SubmitClick == startMonitoringForAcceptance(MaxLoops)

\* a loop whose interval is not cleared when the attempts run out
PollTick_NeverGivesUp(k, accepted) ==
  /\ LET attempts == pollers[k] + 1
     IN  IF attempts > maxAttempts
         THEN UNCHANGED <<pollers, isMonitoringSubmission, autoTimers>>
         ELSE IF accepted
         THEN /\ pollers' = Without(pollers, k)
              /\ isMonitoringSubmission' = FALSE
              /\ autoTimers' = autoTimers + 1
         ELSE /\ pollers' = [pollers EXCEPT ![k] = attempts]
              /\ UNCHANGED <<isMonitoringSubmission, autoTimers>>
  /\ UNCHANGED <<pageSlug, toolbarBtn, recentKeys, evictTimers,
                 lastFailedSubmission, lastAcceptedSubmission,
                 currentProblemSlug, toolbarButtonState, lastRequestLanguage,
                 successTimers, pushes, begun, console>>
  /\ UNCHANGED <<ghVars, bfsVars, domVars>>

\* one tick of the interval of a loop (lines 107-129); accepted is what
\* isPageShowingAcceptedSubmission returns
PollTick(k, accepted) ==
  /\ LET attempts == pollers[k] + 1
     IN  IF attempts > maxAttempts
         THEN /\ pollers' = Without(pollers, k)
              /\ isMonitoringSubmission' = FALSE
              /\ UNCHANGED autoTimers
         ELSE IF accepted
         THEN /\ pollers' = Without(pollers, k)
              /\ isMonitoringSubmission' = FALSE
              /\ autoTimers' = autoTimers + 1
         ELSE /\ pollers' = [pollers EXCEPT ![k] = attempts]
              /\ UNCHANGED <<isMonitoringSubmission, autoTimers>>
  /\ UNCHANGED <<pageSlug, toolbarBtn, recentKeys, evictTimers,
                 lastFailedSubmission, lastAcceptedSubmission,
                 currentProblemSlug, toolbarButtonState, lastRequestLanguage,
                 successTimers, pushes, begun, console>>
  /\ UNCHANGED <<ghVars, bfsVars, domVars>>

\* autoTriggerPush (lines 132-178), when the timer of line 125 fires
AutoTriggerPush(rendered) ==
  LET dom == IF rendered THEN DomRendered(pageSlug) ELSE DomBare
      slug == IF pageSlug # "" THEN NormalizeSlug(pageSlug) ELSE "unknown"
      language == OrElse(lastRequestLanguage,
                    OrElse(dom.language,
                      OrElse(detectLanguageFromCode(dom.code), "unknown")))
      submission ==
        Payload(OrElse(dom.title, "Unknown Problem"), slug, language, dom.code,
                "auto", "auto", DateNow, dom)
  IN  /\ autoTimers > 0
      /\ begun < MaxPushes
      /\ autoTimers' = autoTimers - 1
      /\ IF dom.code = ""
         THEN /\ console' = "Cannot auto-push: no code found"
              /\ UNCHANGED <<lastAcceptedSubmission, toolbarButtonState, pushes, begun>>
         ELSE IF isRecent(submission)
         THEN /\ console' = "Auto-push skipped: duplicate submission"
              /\ UNCHANGED <<lastAcceptedSubmission, toolbarButtonState, pushes, begun>>
         ELSE /\ beginPush(submission, "auto-trigger")
              /\ UNCHANGED console
      /\ UNCHANGED <<pageSlug, toolbarBtn, recentKeys, evictTimers,
                     isMonitoringSubmission, lastFailedSubmission,
                     currentProblemSlug, lastRequestLanguage, pollers,
                     successTimers>>
      /\ UNCHANGED <<ghVars, bfsVars, domVars>>

\* the single-page application shows another problem
Navigate(slug) ==
  /\ slug # pageSlug
  /\ pageSlug' = slug
  /\ UNCHANGED <<toolbarBtn, recentKeys, evictTimers, isMonitoringSubmission,
                 lastFailedSubmission, lastAcceptedSubmission,
                 currentProblemSlug, toolbarButtonState, lastRequestLanguage,
                 pollers, autoTimers, successTimers, pushes, begun, console>>
  /\ UNCHANGED <<ghVars, bfsVars, domVars>>

\* the host page renders its toolbar anew, without the button
RemoveButton ==
  /\ toolbarBtn
  /\ toolbarBtn' = FALSE
  /\ UNCHANGED <<pageSlug, recentKeys, evictTimers, isMonitoringSubmission,
                 lastFailedSubmission, lastAcceptedSubmission,
                 currentProblemSlug, toolbarButtonState, lastRequestLanguage,
                 pollers, autoTimers, successTimers, pushes, begun, console>>
  /\ UNCHANGED <<ghVars, bfsVars, domVars>>

\* attemptToolbarInjection (lines 273-394), from the timers of
\* injectToolbarButton or its MutationObserver; notes: a Notes button is found
AttemptToolbarInjection(notes) ==
  /\ ~toolbarBtn
  /\ LET after == checkAndResetProblemState
     IN  /\ currentProblemSlug' = after.slug
         /\ lastAcceptedSubmission' = after.accepted
         /\ lastFailedSubmission' = after.failed
         /\ isMonitoringSubmission' = after.monitoring
  /\ toolbarBtn' = notes
  /\ UNCHANGED <<pageSlug, recentKeys, evictTimers, toolbarButtonState,
                 lastRequestLanguage, pollers, autoTimers, successTimers,
                 pushes, begun, console>>
  /\ UNCHANGED <<ghVars, bfsVars, domVars>>

\* the background is idle in the runs of the content script
Init ==
  /\ settings = [uploadEnabled |-> TRUE, accessToken |-> "gho_token", repo |-> "solutions"]
  /\ repoExists = TRUE
  /\ files = [p \in AllPaths |-> <<>>]
  /\ calls = [c \in Calls |-> IdleCall]
  /\ faults = 0
  /\ \E slug \in PageSlugs : ContentLoaded(slug)

\* the candidates of the runs of the orchestrator: an accepted and a
\* rejected single result with their request, and an accepted array result
\* without a request, the page rendered
Candidates ==
  {<<RespSingle("Accepted"), ReqCode, TRUE>>,
   <<RespSingle("Wrong Answer"), ReqCode, TRUE>>,
   <<RespArray("Accepted", "Wrong Answer"), ReqNone, TRUE>>}

\* the orchestrator with the network observer, the message listener and
\* the toolbar
Next ==
  \/ ToolbarClick
  \/ \E i \in 1..Len(pushes), ok \in BOOLEAN : ToolbarResponse(i, ok)
  \/ SuccessTimer
  \/ EvictTimer
  \/ \E c \in Candidates : HandleCandidate(c[1], c[2], c[3])
  \/ \E payload \in {p \in Posted : p.title # "Accepted"} : PostMessage(payload)
  \/ \E i \in 1..Len(pushes) : \E info \in Infos(pushes[i].payload.slug) : FetchDone(i, info)
  \/ \E i \in 1..Len(pushes), ok \in BOOLEAN : PushResponse(i, ok)
  \/ \E slug \in PageSlugs : Navigate(slug)
  \/ RemoveButton
  \/ \E notes \in BOOLEAN : AttemptToolbarInjection(notes)

Spec == Init /\ [][Next]_vars

\* the orchestrator with the acceptance loops of the Submit button
NextMonitor ==
  \/ SubmitClick
  \/ \E k \in 1..Len(pollers), accepted \in BOOLEAN :
       /\ accepted \/ pollers[k] < MaxPolls
       /\ PollTick(k, accepted)
  \/ \E rendered \in BOOLEAN : AutoTriggerPush(rendered)
  \/ \E i \in 1..Len(pushes) : \E info \in Infos(pushes[i].payload.slug) : FetchDone(i, info)
  \/ \E i \in 1..Len(pushes), ok \in BOOLEAN : PushResponse(i, ok)
  \/ SuccessTimer
  \/ EvictTimer
  \/ \E slug \in PageSlugs : Navigate(slug)
  \/ \E notes \in BOOLEAN : AttemptToolbarInjection(notes)

SpecMonitor == Init /\ [][NextMonitor]_vars

MaxCaptures == 1     \* pushes begun per behaviour of the network observer alone

\* the network observer alone, given every request and response of the model
NextCapture ==
  \/ /\ begun < MaxCaptures
     /\ \E data \in Responses, requestData \in Requests, rendered \in BOOLEAN :
          HandleCandidate(data, requestData, rendered)
  \/ \E i \in 1..Len(pushes) : \E info \in Infos(pushes[i].payload.slug) : FetchDone(i, info)
  \/ \E i \in 1..Len(pushes), ok \in BOOLEAN : PushResponse(i, ok)
  \/ EvictTimer
  \/ \E slug \in PageSlugs : Navigate(slug)

SpecCapture == Init /\ [][NextCapture]_vars

\* the orchestrator without the messages of the page: the network observer
\* alone begins pushes
NextObserved ==
  \/ ToolbarClick
  \/ \E i \in 1..Len(pushes), ok \in BOOLEAN : ToolbarResponse(i, ok)
  \/ SuccessTimer
  \/ EvictTimer
  \/ \E c \in Candidates : HandleCandidate(c[1], c[2], c[3])
  \/ \E i \in 1..Len(pushes) : \E info \in Infos(pushes[i].payload.slug) : FetchDone(i, info)
  \/ \E i \in 1..Len(pushes), ok \in BOOLEAN : PushResponse(i, ok)
  \/ \E slug \in PageSlugs : Navigate(slug)
  \/ RemoveButton
  \/ \E notes \in BOOLEAN : AttemptToolbarInjection(notes)

SpecObserved == Init /\ [][NextObserved]_vars

\* the acceptance loops run to their end, one at a time: the Submit button,
\* the ticks of the interval and the pushes they trigger
NextLoop ==
  \/ pollers = <<>> /\ SubmitClick
  \/ \E k \in 1..Len(pollers), accepted \in BOOLEAN : PollTick(k, accepted)
  \/ /\ begun < MaxCaptures
     /\ \E rendered \in BOOLEAN : AutoTriggerPush(rendered)
  \/ \E i \in 1..Len(pushes) : \E info \in Infos(pushes[i].payload.slug) : FetchDone(i, info)
  \/ \E i \in 1..Len(pushes), ok \in BOOLEAN : PushResponse(i, ok)
  \/ \E slug \in PageSlugs : Navigate(slug)
  \/ \E notes \in BOOLEAN : AttemptToolbarInjection(notes)

\* setInterval fires every 500 ms until it is cleared: a running loop keeps
\* getting its ticks
SpecLoop ==
  /\ Init /\ [][NextLoop]_vars
  /\ WF_vars(pollers # <<>> /\ \E accepted \in BOOLEAN : PollTick(1, accepted))

\* the records whose push the store is asked to mark: every slug and code
\* under two titles, languages, runtimes and timestamps
KeyRecords ==
  [title : {"Two Sum", "3Sum"}, slug : {"two-sum", "3sum"},
   language : {"python", "java"}, code : {CodeA, CodeB, "pass", "int x;"},
   runtime : {"52ms", "auto"}, memory : {"44.1MB"}, timestamp : {0, DateNow},
   url : {""}, problemNumber : {""}, difficulty : {""}, description : {""}]

\* pushSubmission awaits the background's answer to the message of a record
InitFingerprint ==
  /\ settings = [uploadEnabled |-> TRUE, accessToken |-> "gho_token", repo |-> "solutions"]
  /\ repoExists = TRUE
  /\ files = [p \in AllPaths |-> <<>>]
  /\ calls = [c \in Calls |-> IdleCall]
  /\ faults = 0
  /\ pageSlug \in PageSlugs
  /\ toolbarBtn = FALSE
  /\ recentKeys = {}
  /\ evictTimers = <<>>
  /\ isMonitoringSubmission = FALSE
  /\ lastFailedSubmission = null
  /\ lastAcceptedSubmission \in KeyRecords
  /\ currentProblemSlug = ""
  /\ toolbarButtonState = "idle"
  /\ lastRequestLanguage = ""
  /\ pollers = <<>>
  /\ autoTimers = 0
  /\ successTimers = 0
  /\ pushes = <<Push(lastAcceptedSubmission, "postMessage", "awaiting")>>
  /\ begun = 1
  /\ console = ""
  /\ bfsData = <<>>
  /\ bfsQueue = <<>>
  /\ bfsSteps = 0
  /\ bfsFound = FALSE
  /\ bfsResult = FALSE
  /\ bfsPc = "idle"
  /\ pageEditor = [monaco |-> <<>>, textareas |-> <<>>, containers |-> <<>>]
  /\ pageCode = [pc |-> "idle", result |-> <<>>]
  /\ buttons = 0
  /\ injectTimers = {}
  /\ mutations = <<>>
  /\ observing = FALSE

\* the answer to the push and, 10 minutes after markRecent, its timer
NextFingerprint ==
  \/ \E i \in 1..Len(pushes), ok \in BOOLEAN : PushResponse(i, ok)
  \/ EvictTimer

SpecFingerprint == InitFingerprint /\ [][NextFingerprint]_vars

\* extractSubmission has come to its generic search (lines 1456-1458)
InitSearch ==
  /\ settings = [uploadEnabled |-> TRUE, accessToken |-> "gho_token", repo |-> "solutions"]
  /\ repoExists = TRUE
  /\ files = [p \in AllPaths |-> <<>>]
  /\ calls = [c \in Calls |-> IdleCall]
  /\ faults = 0
  /\ pageSlug \in PageSlugs
  /\ toolbarBtn = FALSE
  /\ recentKeys = {}
  /\ evictTimers = <<>>
  /\ isMonitoringSubmission = FALSE
  /\ lastFailedSubmission = null
  /\ lastAcceptedSubmission = null
  /\ currentProblemSlug = ""
  /\ toolbarButtonState = "idle"
  /\ lastRequestLanguage = ""
  /\ pollers = <<>>
  /\ autoTimers = 0
  /\ successTimers = 0
  /\ pushes = <<>>
  /\ begun = 0
  /\ console = ""
  /\ bfsData \in SearchDocs
  /\ bfsQueue = <<1>>
  /\ bfsSteps = 0
  /\ bfsFound = FALSE
  /\ bfsResult = Undefined
  /\ bfsPc = "loop"
  /\ pageEditor = [monaco |-> <<>>, textareas |-> <<>>, containers |-> <<>>]
  /\ pageCode = [pc |-> "idle", result |-> <<>>]
  /\ buttons = 0
  /\ injectTimers = {}
  /\ mutations = <<>>
  /\ observing = FALSE

searchUnchanged ==
  UNCHANGED <<ghVars, pageSlug, toolbarBtn, recentKeys, evictTimers,
              isMonitoringSubmission, lastFailedSubmission,
              lastAcceptedSubmission, currentProblemSlug, toolbarButtonState,
              lastRequestLanguage, pollers, autoTimers, successTimers, pushes,
              begun, console, bfsData, domVars>>

\* one turn of the while loop (lines 1460-1506)
SearchStep ==
  /\ bfsPc = "loop"
  /\ ~searchEnds(bfsQueue, bfsSteps)
  /\ LET step == genericStep(bfsData, bfsQueue, bfsFound, DomRendered(pageSlug))
     IN  /\ bfsSteps' = bfsSteps + 1
         /\ bfsQueue' = step.queue
         /\ bfsFound' = step.found
         /\ bfsResult' = step.result
         /\ bfsPc' = IF step.returns THEN "done" ELSE "loop"
  /\ searchUnchanged

\* the loop has ended: return undefined (line 1508)
SearchReturn ==
  /\ bfsPc = "loop"
  /\ searchEnds(bfsQueue, bfsSteps)
  /\ bfsResult' = Undefined
  /\ bfsPc' = "done"
  /\ UNCHANGED <<bfsQueue, bfsSteps, bfsFound>>
  /\ searchUnchanged

NextSearch == SearchStep \/ SearchReturn

\* what every step of NextSearch does to the position and the count of the
\* search, and nothing else does: the loop takes a turn or returns
SearchRuns ==
  /\ bfsPc = "loop"
  /\ bfsSteps' \in {bfsSteps, bfsSteps + 1}
  /\ bfsPc' \in {"loop", "done"}
  /\ bfsSteps' = bfsSteps => bfsPc' = "done"

\* the loop is synchronous code: it runs on until it returns
SpecSearch == InitSearch /\ [][NextSearch]_vars /\ WF_<<bfsPc, bfsSteps>>(SearchRuns)

(***************************************************************************)
(* Claims about the content script, under the specifications above.        *)
(***************************************************************************)
Last(seq) == seq[Len(seq)]

\* the step begins a push from the given call site
Begins(via) == begun' > begun /\ Last(pushes').via = via

\* the pushes of the given call sites whose message awaits its response
Awaiting(vias) ==
  {i \in 1..Len(pushes) : pushes[i].via \in vias /\ pushes[i].pc = "awaiting"}

\* C2: of two accepted candidates of the network observer with the same slug
\* and code, arriving within the TTL, the second while the push of the first
\* still awaits the background's response included, at most one has its
\* submission message sent.
C2_AtMostOneMessage ==
  \A i, j \in Awaiting({"network"}) :
    buildKey(pushes[i].payload) = buildKey(pushes[j].payload) => i = j

\* what the gate of handleCandidate does give: a candidate whose fingerprint
\* is in the recent set (a push of the same slug and code was answered ok
\* and its eviction timer has not fired) begins no push
StoppedOnceMarked ==
  [][Begins("network") => buildKey(Last(pushes').payload) \notin recentKeys]_vars

\* one push was begun and answered ok, its fingerprint is still marked, and
\* the observer has since refused a candidate as a duplicate
StoppedOnceMarked_Reached ==
  /\ begun = 1 /\ pushes = <<>>
  /\ lastAcceptedSubmission # null
  /\ buildKey(lastAcceptedSubmission) \in recentKeys
  /\ console = "duplicate submission skipped"

\* the response carries a status equal to "accepted", case-insensitively:
\* one of its objects holds it as the string under status,
\* statusDescription or description
CarriesAccepted(data) ==
  \E i \in 1..Len(data) :
    /\ data[i].t = "obj"
    /\ \E key \in {"status", "statusDescription", "description"} :
         LET v == Member(data, i, key)
         IN  v # 0 /\ data[v].t = "str" /\ IsAcceptedText(data[v].s)

\* C3: on the path of handleCandidate a candidate whose response carries no
\* status equal to "accepted" (case-insensitive) begins no push, so no
\* message is sent for it, whatever the shape of the response (single
\* result, array, generic) and whatever the request.
C3_OnlyAcceptedPushed ==
  [][\A data \in Responses, requestData \in Requests, rendered \in BOOLEAN :
       (HandleCandidate(data, requestData, rendered) /\ begun' > begun)
         => CarriesAccepted(data)]_vars

\* the observer has refused a candidate for which extractSubmission gave
\* nothing, and no push was begun
C3_Witness ==
  /\ console = "extractSubmission returned null"
  /\ begun = 0 /\ pushes = <<>> /\ lastAcceptedSubmission = null

\* C4: at most one push of the toolbar (doToolbarPush awaiting the
\* background's response) is in flight at any time.
C4_OneToolbarPushInFlight == Cardinality(Awaiting({"manual", "retry"})) <= 1

\* C8: a click on the push button that is not a retry begins a push only
\* when an accepted record is stored whose slug equals the slug of the page,
\* lower-cased and with whitespace replaced by hyphens, and the push carries
\* that record; a click that begins no push leaves toolbarButtonState as it
\* was.
C8_ManualPushGuard ==
  [][/\ Begins("manual") =>
          /\ lastAcceptedSubmission' # null
          /\ lastAcceptedSubmission'.slug = NormalizeSlug(pageSlug)
          /\ Last(pushes').payload = lastAcceptedSubmission'
     /\ (ToolbarClick /\ begun' = begun) =>
          (toolbarButtonState' = toolbarButtonState /\ pushes' = pushes)]_vars

\* a manual push is in flight on a page whose slug is spelled with capitals
C8_Witness ==
  /\ pageSlug = "Two-Sum"
  /\ \E i \in Awaiting({"manual"}) : pushes[i].payload.slug = "two-sum"

\* C9: toolbarButtonState changes only along idle -> pushing,
\* pushing -> success, pushing -> error, error -> pushing, success -> idle.
C9_StateEdges ==
  [][toolbarButtonState' # toolbarButtonState =>
       <<toolbarButtonState, toolbarButtonState'>> \in
         {<<"idle", "pushing">>, <<"pushing", "success">>, <<"pushing", "error">>,
          <<"error", "pushing">>, <<"success", "idle">>}]_vars

\* the payloads whose message the step sends: pushes that come to await the
\* background's response
SentNow ==
  IF Len(pushes') < Len(pushes) THEN {}
  ELSE {pushes'[i].payload : i \in
          {j \in 1..Len(pushes') :
             /\ pushes'[j].pc = "awaiting"
             /\ (j > Len(pushes) \/ pushes[j].pc = "enrich")}}

\* C10: whatever the trigger, no message is sent for a record whose
\* fingerprint is in the recent set.
C10_NoMessageForRecent ==
  [][\A payload \in SentNow : buildKey(payload) \notin recentKeys]_vars

\* the step is the answer ok (or not ok) of the background to push i
Answered(i, ok) == ToolbarResponse(i, ok) \/ PushResponse(i, ok)

\* C11: after the answer ok to a push, whatever started it, the fingerprint
\* of its record is in the recent set and the toolbar state is success (the
\* state is asked for only while the push button is on the page).
C11_MarkedAndSuccess ==
  [][\A i \in 1..Len(pushes) :
       Answered(i, TRUE) =>
         /\ buildKey(pushes[i].payload) \in recentKeys'
         /\ toolbarBtn => toolbarButtonState' = "success"]_vars

\* C12: after an answer that is not ok (or a send that throws) the toolbar
\* state is error and the failed record retained is the record of that push
\* (asked for only while the push button is on the page); the state then
\* leaves error only by a click that retries or by the reset of a slug
\* change.
C12_ErrorRetained ==
  [][/\ \A i \in 1..Len(pushes) :
          (Answered(i, FALSE) /\ toolbarBtn) =>
            /\ toolbarButtonState' = "error"
            /\ lastFailedSubmission' = pushes[i].payload
     /\ (toolbarButtonState = "error" /\ toolbarButtonState' # "error") =>
          \/ Begins("retry")
          \/ currentProblemSlug' # currentProblemSlug]_vars

\* C13: once checkAndResetProblemState has taken the page's slug as the
\* current problem, a click on the push button, retry or manual, sends no
\* record whose slug is that of the other problem, the one shown before.
C13_NoStaleRecord ==
  [][(Begins("manual") \/ Begins("retry")) =>
       Last(pushes').payload.slug \notin
         {NormalizeSlug(slug) : slug \in PageSlugs \ {currentProblemSlug'}}]_vars

\* C14: every acceptance loop ends.  A loop makes at most 60 checks; the
\* tick that finds the page accepted schedules one autoTriggerPush, the 61st
\* tick schedules none and leaves the pushes alone, and both clear the
\* interval and set isMonitoringSubmission to false; any other tick only
\* counts.  With the interval firing, a running loop comes to its end.
C14_LoopEnds ==
  /\ [](\A k \in 1..Len(pollers) : pollers[k] <= maxAttempts)
  /\ [][\A k \in 1..Len(pollers), accepted \in BOOLEAN :
          PollTick(k, accepted) =>
            IF pollers[k] = maxAttempts
            THEN /\ pollers' = Without(pollers, k)
                 /\ ~isMonitoringSubmission'
                 /\ UNCHANGED <<autoTimers, pushes, begun, recentKeys,
                                toolbarButtonState, lastAcceptedSubmission,
                                lastFailedSubmission>>
            ELSE IF accepted
            THEN /\ pollers' = Without(pollers, k)
                 /\ ~isMonitoringSubmission'
                 /\ autoTimers' = autoTimers + 1
            ELSE /\ pollers' = [pollers EXCEPT ![k] = pollers[k] + 1]
                 /\ UNCHANGED <<isMonitoringSubmission, autoTimers>>]_vars
  /\ (pollers # <<>>) ~> (pollers = <<>>)

\* a loop has made its 60 checks without finding the page accepted
C14_Witness ==
  /\ pollers # <<>> /\ pollers[1] = maxAttempts
  /\ isMonitoringSubmission /\ autoTimers = 0

RECURSIVE MulAdd31(_, _, _)
\* h * 31 + charCode folded over the text, wrapped to 32 bits at each step
MulAdd31(s, hi, lo) ==
  IF s = <<>> THEN <<hi, lo>>
  ELSE LET t == 31 * lo + Head(s)
           h == <<(31 * hi + t \div 65536) % 65536, t % 65536>>
       IN  IF h \in Int32 THEN MulAdd31(Tail(s), h[1], h[2]) ELSE <<>>

\* C17: the fingerprint is a function of slug and code alone.  Once the push
\* of a record was answered ok, the one fingerprint marked is the slug, a
\* hyphen and the base-36 absolute value of the signed 32-bit h * 31 +
\* charCode folded over the code, and every record with that slug and code
\* is recent, whatever its title, language, runtime and timestamp.
C17_KeyOfSlugAndCode ==
  LET marked == lastAcceptedSubmission
  IN  recentKeys # {} =>
        /\ recentKeys =
             {Chars(marked.slug) \o Hyphen
                \o toString36(MathAbs(MulAdd31(Chars(marked.code), 0, 0)))}
        /\ \A other \in KeyRecords :
             (other.slug = marked.slug /\ other.code = marked.code)
               => isRecent(other)

\* the fingerprint of a record is marked whose hash wrapped around: h ends
\* negative for CodeA
C17_Witness ==
  /\ recentKeys # {} /\ pushes = <<>>
  /\ lastAcceptedSubmission.code = CodeA
  /\ lastAcceptedSubmission.language = "java"
  /\ hashLoop(Chars(CodeA), 0, 0)[1] >= 32768

RECURSIVE FirstAvailable(_, _)
\* the first language of langs that is not in none, else "unknown"
FirstAvailable(langs, none) ==
  IF langs = <<>> THEN "unknown"
  ELSE IF Head(langs) \in none THEN FirstAvailable(Tail(langs), none)
  ELSE Head(langs)

\* C20: the language of every record extractSubmission builds is the first
\* available of the language of the request body, the language captured
\* from an earlier request (lastRequestLanguage), the language the page
\* shows and the language detected from the record's code, else "unknown";
\* a language counts as available when it is present, or when it is present
\* and not "unknown".
C20_LanguagePrecedence ==
  [][\A data \in Responses, requestData \in Requests, rendered \in BOOLEAN :
       (HandleCandidate(data, requestData, rendered) /\ begun' = begun + 1)
         => LET dom == IF rendered THEN DomRendered(pageSlug) ELSE DomBare
                built == Last(pushes').payload
                chain == <<requestFields(requestData).lang, lastRequestLanguage,
                           dom.language, detectLanguageFromCode(built.code)>>
            IN  built.language \in {FirstAvailable(chain, {""}),
                                    FirstAvailable(chain, {"", "unknown"})}]_vars

\* C21: an accepted single result whose request body is nested as
\* {data: {rawCode, lang, problemId}} yields an accepted record: handleCandidate
\* keeps lang as the request's language and, unless the record is a recent
\* duplicate, begins the push of a record with language lang, code rawCode,
\* runtime data.time, memory data.memory and the slug made from problemId,
\* lower-cased, spaces replaced by hyphens.
C21_SingleNested ==
  [][\A requestData \in {ReqNested, ReqSpaced}, rendered \in BOOLEAN :
       HandleCandidate(RespSingle("Accepted"), requestData, rendered)
         => LET want == IF requestData = ReqNested THEN <<"python", CodeA>>
                        ELSE <<"java", CodeB>>
            IN  /\ lastRequestLanguage' = want[1]
                /\ IF begun' = begun
                   THEN console' = "duplicate submission skipped"
                   ELSE /\ Begins("network")
                        /\ Last(pushes').payload.language = want[1]
                        /\ Last(pushes').payload.code = want[2]
                        /\ Last(pushes').payload.runtime = "52ms"
                        /\ Last(pushes').payload.memory = "44.1MB"
                        /\ Last(pushes').payload.slug = "two-sum"]_vars

\* the record of the request whose problemId is "Two Sum" is being pushed
C21_Witness ==
  \E i \in 1..Len(pushes) :
    /\ pushes[i].via = "network"
    /\ pushes[i].payload.slug = "two-sum" /\ pushes[i].payload.language = "java"
    /\ pushes[i].payload.code = CodeB /\ pushes[i].payload.runtime = "52ms"
    /\ pushes[i].payload.memory = "44.1MB"

\* C22: an accepted single result that comes without a request body still
\* yields a record: on a rendered page handleCandidate begins the push of a
\* record (or skips it as a recent duplicate) whose code is the code the
\* page extraction finds and whose language is the language the page shows.
C22_PageFallback ==
  [][HandleCandidate(RespSingle("Accepted"), ReqNone, TRUE)
       => LET dom == DomRendered(pageSlug)
          IN  IF begun' = begun THEN console' = "duplicate submission skipped"
              ELSE /\ Begins("network")
                   /\ Last(pushes').payload.code = dom.code
                   /\ Last(pushes').payload.language = dom.language]_vars

\* C23: every record passed to the background in a submission message has
\* code longer than 10 characters.
C23_PlausibleCode ==
  \A i \in 1..Len(pushes) :
    pushes[i].pc = "awaiting" => Len(Chars(pushes[i].payload.code)) > 10

\* C24: every message delivered to the background listener is answered once
\* (a call that returned keeps its response), and the response is an
\* envelope with a boolean ok field, ok false carrying an error: for every
\* type, get-settings included, with error "unknown-message" for an unknown
\* type and "bad-message" for a message that is no object.
C24_Envelope ==
  /\ [](\A c \in Calls : calls[c].pc = "returned" =>
          /\ "ok" \in DOMAIN calls[c].result
          /\ calls[c].result.ok \in BOOLEAN
          /\ ~calls[c].result.ok => calls[c].result.error # ""
          /\ "message" \in DOMAIN calls[c] =>
               /\ ~calls[c].message.object => calls[c].result.error = "bad-message"
               /\ (calls[c].message.object /\ calls[c].message.oauth = ""
                     /\ calls[c].message.type = "ping")
                    => calls[c].result.error = "unknown-message")
  /\ [][\A c \in Calls : calls[c].pc = "returned" => calls'[c] = calls[c]]_vars

\* C25: in every call, a write of a file (PUT contents/{path}) comes right
\* after the read of that same path (GET contents/{path}); the read was
\* answered with success or with 404; the write carries a sha if and only
\* if the read succeeded, and then the sha of the revision the store held
\* when it was read; a read answered with any other status is the call's
\* last request, and the call returns a failure.
C25_ShaFromRead ==
  /\ [](\A c \in Calls : \A i \in 1..Len(Log(c)) :
          /\ (Log(c)[i].method = "PUT" /\ Log(c)[i].url = "contents") =>
               /\ i > 1
               /\ Log(c)[i - 1].method = "GET" /\ Log(c)[i - 1].url = "contents"
               /\ Log(c)[i - 1].path = Log(c)[i].path
               /\ Ok(Log(c)[i - 1].status) \/ Log(c)[i - 1].status = 404
               /\ Log(c)[i].sha # <<>> <=> Ok(Log(c)[i - 1].status)
          /\ (/\ Log(c)[i].method = "GET" /\ Log(c)[i].url = "contents"
              /\ ~Ok(Log(c)[i].status) /\ Log(c)[i].status # 404) =>
               /\ i = Len(Log(c))
               /\ calls[c].pc = "returned" /\ ~calls[c].result.ok)
  /\ [][\A c \in Calls :
          /\ (calls[c].pc = "read" /\ calls'[c].pc = "write") =>
               calls'[c].sha =
                 IF Ok(Last(Log(c)').status) THEN ShaOf(files[Last(Log(c)').path])
                 ELSE <<>>
          /\ (calls[c].pc = "write" /\ Len(Log(c)') = Len(Log(c)) + 1) =>
               Last(Log(c)').sha = calls[c].sha]_vars

\* a call has replaced a file, its write carrying the sha it had read
C25_Witness ==
  \E c \in Calls : \E i \in 2..Len(Log(c)) :
    /\ Log(c)[i].method = "PUT" /\ Log(c)[i].sha # <<>> /\ Ok(Log(c)[i].status)
    /\ Ok(Log(c)[i - 1].status) /\ Log(c)[i - 1].path = Log(c)[i].path

\* C26: against a store that refuses a write whose sha is missing or stale
\* for an existing file, also when calls for the same path interleave, a
\* write that succeeds replaces the very revision its writer read (or
\* creates a file the writer found missing), and a write whose sha is not
\* that of the revision in the store changes no file and ends its call with
\* a failure.
C26_NoBlindOverwrite ==
  [][\A c \in Calls :
       (calls[c].pc = "write" /\ Len(Log(c)') = Len(Log(c)) + 1) =>
         LET put == Last(Log(c)')
         IN  /\ Ok(put.status) => put.sha = ShaOf(files[put.path])
             /\ put.sha # ShaOf(files[put.path]) =>
                  /\ files' = files
                  /\ calls'[c].pc = "returned" /\ ~calls'[c].result.ok
                  /\ calls'[c].result.error = "Commit failed"]_vars

\* two calls ran at the same time, both found the file missing, and the one
\* that wrote second, without a sha, was refused with 422
C26_Witness ==
  \E c \in Calls :
    /\ calls[c].pc = "returned" /\ ~calls[c].result.ok
    /\ calls[c].overlap # {} /\ ~calls[c].faulted
    /\ Last(Log(c)).method = "PUT" /\ Last(Log(c)).status = 422
    /\ Last(Log(c)).sha = <<>> /\ files[Last(Log(c)).path] # <<>>

\* C27: a fingerprint is in the set exactly while 10 minutes have not passed
\* since its most recent mark, that is, while a timer of one of its marks is
\* still pending: isRecent is true of a record if and only if the timer of
\* a markRecent of its fingerprint has not fired yet.
C27_RecentForTenMinutes ==
  recentKeys = {evictTimers[k] : k \in 1..Len(evictTimers)}

\* C28: the push state is reset with the problem: in every reachable state,
\* toolbarButtonState = "error" implies that a failed record is retained
\* (lastFailedSubmission is not null).
C28_ErrorHasRecord ==
  toolbarButtonState = "error" => lastFailedSubmission # null

\* C29: the record made from an array of per-test results takes its runtime,
\* memory and timestamp from the last element whose status.description is
\* "accepted" in any case, and an array without an accepted element yields
\* no record: handleCandidate begins no push for it.
C29_LastAccepted ==
  [][\A requestData \in Requests, rendered \in BOOLEAN :
       /\ (HandleCandidate(RespArrayThree, requestData, rendered) /\ begun' > begun)
            => /\ Last(pushes').payload.runtime = "60ms"
               /\ Last(pushes').payload.memory = "45MB"
               /\ Last(pushes').payload.timestamp = 2000
       /\ HandleCandidate(RespArray("Wrong Answer", "Wrong Answer"), requestData, rendered)
            => /\ begun' = begun /\ pushes' = pushes
               /\ console' = "extractSubmission returned null"]_vars

\* the record of the array whose second of three elements is the last
\* accepted one is being pushed
C29_Witness ==
  \E i \in 1..Len(pushes) :
    /\ pushes[i].via = "network" /\ pushes[i].payload.runtime = "60ms"
    /\ pushes[i].payload.memory = "45MB" /\ pushes[i].payload.timestamp = 2000

\* C30: the generic search always ends, also on a payload that holds itself
\* and on payloads of more than 200 nodes.  It takes at most 200 nodes from
\* its queue, in breadth-first order: the qualifying object that is the
\* 200th node is returned, the one that is the 201st is never looked at, and
\* the search that reaches the bound returns undefined.
C30_SearchEnds ==
  /\ <>(bfsPc = "done")
  /\ [](bfsSteps <= MaxSteps)
  /\ [](bfsPc = "done" =>
          /\ bfsData \in {RespCyclic, RespWide(MaxSteps - 1)} =>
               /\ bfsResult = Undefined
               /\ bfsSteps = MaxSteps /\ bfsQueue # <<>>
          /\ bfsData = RespWide(MaxSteps - 2) =>
               /\ bfsResult.defined /\ bfsResult.payload.code = CodeB
               /\ bfsSteps = MaxSteps)
  /\ [][bfsPc = "loop" /\ bfsPc' = "loop" /\ IsObject(bfsData, Head(bfsQueue)) =>
          bfsQueue' = Tail(bfsQueue)
                        \o objectValues(bfsData, bfsData[Head(bfsQueue)].f)]_vars

\* the search of the payload that holds itself has returned undefined after
\* 200 nodes, its queue not empty
C30_Witness ==
  /\ bfsPc = "done" /\ bfsData = RespCyclic
  /\ bfsSteps = MaxSteps /\ bfsQueue # <<>> /\ bfsResult = Undefined

\* C31: the generic search reports a record only when the object the code
\* is taken from holds itself the status equal to "accepted": the payload
\* has an object carrying that status together with the code reported, a
\* language and a title or slug.
C31_SameObject ==
  (bfsPc = "done" /\ bfsResult.defined) =>
    \E i \in 1..Len(bfsData) :
      /\ bfsData[i].t = "obj"
      /\ IsAcceptedText(getString(bfsData, i,
                                  <<"status", "statusDescription", "description">>))
      /\ getString(bfsData, i, <<"code", "solution", "answer">>)
           = bfsResult.payload.code
      /\ getString(bfsData, i, <<"lang", "language", "langSlug">>) # ""
      /\ \/ getString(bfsData, i, <<"title", "questionTitle", "problemTitle">>) # ""
         \/ getString(bfsData, i, <<"slug", "titleSlug", "questionSlug",
                                    "problemSlug">>) # ""

(***************************************************************************)
(* neetcode.ts: extractPageCode (lines 1072-1111), on the code units of    *)
(* the texts of the page.                                                  *)
(***************************************************************************)
\* String.prototype.trim
Trim(s) ==
  LET kept == {k \in 1..Len(s) : ~IsSpace(s[k])}
  IN  IF kept = {} THEN <<>>
      ELSE SubSeq(s, CHOOSE k \in kept : \A l \in kept : k <= l,
                     CHOOSE k \in kept : \A l \in kept : k >= l)

\* a test that lets a text of 10 code units pass
plausible_TenPasses(text) == Len(text) >= 10

\* lines 1076, 1085, 1106: length > 10
plausible(text) == Len(text) > 10

\* "int x = 1;", "int x = 12;" and "  int x;  \n": 10, 11 and 11 code units,
\* the last one 6 when trimmed
TextTen == <<105, 110, 116, 32, 120, 32, 61, 32, 49, 59>>
TextEleven == <<105, 110, 116, 32, 120, 32, 61, 32, 49, 50, 59>>
TextPadded == <<32, 32, 105, 110, 116, 32, 120, 59, 32, 32, 10>>
\* " " and CodeA and "\n": 25 code units, 23 when trimmed
TextLong == <<32>> \o Chars(CodeA) \o <<10>>

\* no value, and a value
None == <<>>
Some(text) == <<text>>

\* lines 1074-1077: the value of the editor's model
monacoCode(monaco) ==
  IF monaco # None /\ plausible(Trim(monaco[1])) THEN Some(Trim(monaco[1]))
  ELSE None

RECURSIVE bestTextarea(_, _)
\* lines 1082-1088: the loop over the textareas, best so far
bestTextarea(textareas, best) ==
  IF textareas = <<>> THEN best
  ELSE LET value == Trim(Head(textareas))
       IN  bestTextarea(Tail(textareas),
             IF value # <<>> /\ plausible(value)
                  /\ (best = None \/ Len(value) > Len(best[1]))
               THEN Some(value) ELSE best)

\* the selectors of lines 1093-1100
selectors == <<".monaco-editor", ".editor", ".code-editor", "pre code", "pre", "code">>

RECURSIVE containerCode(_, _)
\* lines 1102-1108: the first selector, from the k-th on, whose first
\* element has a text that passes
containerCode(containers, k) ==
  IF k > Len(selectors) THEN None
  ELSE LET el == containers[k]
       IN  IF el # None /\ Trim(el[1]) # <<>> /\ plausible(Trim(el[1]))
             THEN Some(Trim(el[1]))
           ELSE containerCode(containers, k + 1)

\* the pages extractPageCode is run on: an editor model or none, up to two
\* textareas, and for every selector no element or a first element
MonacoValues == {None, Some(TextTen), Some(TextPadded), Some(TextLong)}
TextareaValues == {TextTen, TextEleven, TextLong}
MaxTextareas == 2
ContainerTexts == {None, Some(TextTen), Some(TextEleven)}

InitPageCode ==
  /\ settings = [uploadEnabled |-> TRUE, accessToken |-> "gho_token", repo |-> "solutions"]
  /\ repoExists = TRUE
  /\ files = [p \in AllPaths |-> <<>>]
  /\ calls = [c \in Calls |-> IdleCall]
  /\ faults = 0
  /\ pageSlug = "Two-Sum"
  /\ toolbarBtn = FALSE
  /\ recentKeys = {}
  /\ evictTimers = <<>>
  /\ isMonitoringSubmission = FALSE
  /\ lastFailedSubmission = null
  /\ lastAcceptedSubmission = null
  /\ currentProblemSlug = ""
  /\ toolbarButtonState = "idle"
  /\ lastRequestLanguage = ""
  /\ pollers = <<>>
  /\ autoTimers = 0
  /\ successTimers = 0
  /\ pushes = <<>>
  /\ begun = 0
  /\ console = ""
  /\ bfsData = <<>>
  /\ bfsQueue = <<>>
  /\ bfsSteps = 0
  /\ bfsFound = FALSE
  /\ bfsResult = FALSE
  /\ bfsPc = "idle"
  /\ pageEditor \in [monaco : MonacoValues,
                     textareas : UNION {[1..n -> TextareaValues] : n \in 0..MaxTextareas},
                     containers : [1..Len(selectors) -> ContainerTexts]]
  /\ pageCode = [pc |-> "monaco", result |-> None]
  /\ buttons = 0
  /\ injectTimers = {}
  /\ mutations = <<>>
  /\ observing = FALSE

pageCodeUnchanged ==
  UNCHANGED <<ghVars, bfsVars, pageSlug, toolbarBtn, recentKeys, evictTimers,
              isMonitoringSubmission, lastFailedSubmission,
              lastAcceptedSubmission, currentProblemSlug, toolbarButtonState,
              lastRequestLanguage, pollers, autoTimers, successTimers, pushes,
              begun, console, pageEditor, buttons, injectTimers, mutations, observing>>

\* extractPageCode returns code, or goes on with the strategy after
pageCodeAfter(code, then) ==
  IF code # None THEN [pc |-> "done", result |-> code]
  ELSE [pc |-> then, result |-> None]

\* lines 1073-1077
ExtractMonaco ==
  /\ pageCode.pc = "monaco"
  /\ pageCode' = pageCodeAfter(monacoCode(pageEditor.monaco), "textareas")
  /\ pageCodeUnchanged

\* lines 1079-1090
ExtractTextareas ==
  /\ pageCode.pc = "textareas"
  /\ pageCode' = pageCodeAfter(bestTextarea(pageEditor.textareas, None), "containers")
  /\ pageCodeUnchanged

\* lines 1092-1110: the containers, and then undefined
ExtractContainers ==
  /\ pageCode.pc = "containers"
  /\ pageCode' = pageCodeAfter(containerCode(pageEditor.containers, 1), "done")
  /\ pageCodeUnchanged

NextPageCode == ExtractMonaco \/ ExtractTextareas \/ ExtractContainers

SpecPageCode == InitPageCode /\ [][NextPageCode]_vars

\* the candidates of the three strategies, trimmed: the editor's value, the
\* textarea values, the texts of the first elements in selector order
MonacoCandidate == IF pageEditor.monaco = None THEN <<>> ELSE Trim(pageEditor.monaco[1])
TextareaCandidates == {Trim(pageEditor.textareas[k]) : k \in 1..Len(pageEditor.textareas)}
ContainerCandidate(k) ==
  IF pageEditor.containers[k] = None THEN <<>> ELSE Trim(pageEditor.containers[k][1])

UrlSubmit ==
  <<104, 116, 116, 112, 115, 58, 47, 47, 110, 101, 101, 116, 99, 111, 100,
    101, 46, 105, 111, 47, 97, 112, 105, 47, 115, 117, 98, 109, 105, 116,
    67, 111, 100, 101>>
\* "https://neetcode.io/api/runCode"
UrlRun ==
  <<104, 116, 116, 112, 115, 58, 47, 47, 110, 101, 101, 116, 99, 111, 100,
    101, 46, 105, 111, 47, 97, 112, 105, 47, 114, 117, 110, 67, 111, 100,
    101>>
\* "https://neetcode.io/api/executeCode"
UrlExecute ==
  <<104, 116, 116, 112, 115, 58, 47, 47, 110, 101, 101, 116, 99, 111, 100,
    101, 46, 105, 111, 47, 97, 112, 105, 47, 101, 120, 101, 99, 117, 116,
    101, 67, 111, 100, 101>>
\* "https://neetcode.io/api/profile"
UrlOther ==
  <<104, 116, 116, 112, 115, 58, 47, 47, 110, 101, 101, 116, 99, 111, 100,
    101, 46, 105, 111, 47, 97, 112, 105, 47, 112, 114, 111, 102, 105, 108,
    101>>
\* "https://example.com/submit"
UrlForeign ==
  <<104, 116, 116, 112, 115, 58, 47, 47, 101, 120, 97, 109, 112, 108, 101,
    46, 99, 111, 109, 47, 115, 117, 98, 109, 105, 116>>
HintSubmission == <<115, 117, 98, 109, 105, 115, 115, 105, 111, 110>>
HintSubmit == <<115, 117, 98, 109, 105, 116>>
HintRunCode == <<114, 117, 110, 99, 111, 100, 101>>
HintExecuteCode == <<101, 120, 101, 99, 117, 116, 101, 99, 111, 100, 101>>
HintNeetcode == <<110, 101, 101, 116, 99, 111, 100, 101>>

SUBMISSION_ENDPOINT_HINTS == {HintSubmission, HintSubmit}
RUN_CODE_ENDPOINT_HINTS == {HintRunCode, HintExecuteCode}

\* the URLs of the requests the page makes; <<>> is no URL
Urls == {UrlSubmit, UrlRun, UrlExecute, UrlOther, UrlForeign, <<>>}

\* lines 193-209
urlLooksLikeSubmission(url) ==
  IF url = <<>> THEN FALSE
  ELSE LET lower == ToLowerCase(url)
       IN  IF \E hint \in RUN_CODE_ENDPOINT_HINTS : Includes(lower, hint) THEN FALSE
           ELSE /\ \E hint \in SUBMISSION_ENDPOINT_HINTS : Includes(lower, hint)
                /\ Includes(lower, HintNeetcode)

RECURSIVE hasPropertyFrom(_, _, _)
\* lines 16-23: the loop over the path, current the node come to
hasPropertyFrom(doc, current, path) ==
  IF path = <<>> THEN current # 0
  ELSE IF ~IsObject(doc, current) \/ Member(doc, current, Head(path)) = 0 THEN FALSE
  ELSE hasPropertyFrom(doc, Member(doc, current, Head(path)), Tail(path))

\* lines 14-24
hasProperty(doc, path) ==
  IF doc = <<>> \/ ~IsObject(doc, 1) THEN FALSE ELSE hasPropertyFrom(doc, 1, path)

\* lines 1198-1202 and 1229-1233
isSubmissionBody(requestBody) ==
  \/ hasProperty(requestBody, <<"data", "lang">>)
  \/ hasProperty(requestBody, <<"data", "rawCode">>)
  \/ hasProperty(requestBody, <<"lang">>)
  \/ hasProperty(requestBody, <<"rawCode">>)

\* tryCaptureFromResponse and tryCaptureFromText: the response of a request
\* has come; parses: its body is JSON
TryCapture(url, requestBody, data, parses, rendered) ==
  IF ~urlLooksLikeSubmission(url) /\ ~isSubmissionBody(requestBody)
  THEN /\ console' = "Not a submission request (URL or body), skipping"
       /\ UNCHANGED <<pageSlug, toolbarBtn, recentKeys, evictTimers,
                      isMonitoringSubmission, lastFailedSubmission,
                      lastAcceptedSubmission, currentProblemSlug,
                      toolbarButtonState, lastRequestLanguage, pollers,
                      autoTimers, successTimers, pushes, begun>>
       /\ UNCHANGED <<ghVars, bfsVars, domVars>>
  ELSE IF ~parses
  THEN /\ console' = "failed to parse response json"
       /\ UNCHANGED <<pageSlug, toolbarBtn, recentKeys, evictTimers,
                      isMonitoringSubmission, lastFailedSubmission,
                      lastAcceptedSubmission, currentProblemSlug,
                      toolbarButtonState, lastRequestLanguage, pollers,
                      autoTimers, successTimers, pushes, begun>>
       /\ UNCHANGED <<ghVars, bfsVars, domVars>>
  ELSE HandleCandidate(data, requestBody, rendered)

\* the network observers with the gate before handleCandidate, given every
\* URL, request and response of the model
NextIntercept ==
  \/ /\ begun < MaxCaptures
     /\ \E url \in Urls, requestBody \in Requests, data \in Responses,
           parses \in BOOLEAN, rendered \in BOOLEAN :
          TryCapture(url, requestBody, data, parses, rendered)
  \/ \E i \in 1..Len(pushes) : \E info \in Infos(pushes[i].payload.slug) : FetchDone(i, info)
  \/ \E i \in 1..Len(pushes), ok \in BOOLEAN : PushResponse(i, ok)
  \/ EvictTimer
  \/ \E slug \in PageSlugs : Navigate(slug)

SpecIntercept == Init /\ [][NextIntercept]_vars

\* the candidate event: handleCandidate was called, as its effects show
Candidate ==
  \/ begun' > begun
  \/ lastRequestLanguage' # lastRequestLanguage
  \/ console' \in {"extractSubmission returned null",
                   "submission not accepted, skipping auto-push",
                   "duplicate submission skipped"}

\* C33: a response becomes a candidate only if its URL is on the allow-list
\* of submission endpoints or its request body has both a code field and a
\* language field: no call of handleCandidate comes from a response whose
\* URL is off the list and whose request body has only one of the two,
\* {lang} or {data: {rawCode}}.
C33_BothFields ==
  [][Candidate =>
       \A url \in Urls, requestBody \in {ReqLangOnly, ReqCodeOnly},
          data \in Responses, parses \in BOOLEAN, rendered \in BOOLEAN :
         ~(/\ ~urlLooksLikeSubmission(url)
           /\ TryCapture(url, requestBody, data, parses, rendered))]_vars

\* C34: the response of a request to a run-code endpoint is never a
\* candidate, whatever the request body and the result: no call of
\* handleCandidate, and so no push, comes from such a response.
C34_RunCodeIgnored ==
  [][Candidate =>
       \A url \in {UrlRun, UrlExecute}, requestBody \in Requests,
          data \in Responses, parses \in BOOLEAN, rendered \in BOOLEAN :
         ~TryCapture(url, requestBody, data, parses, rendered)]_vars

\* the payloads posted to the enrichment: a whole one, one without a title,
\* one with a status for a title and no slug
PostedBare ==
  {Payload("Two Sum", "two-sum", "python", CodeA, "52ms", "44.1MB", DateNow,
           DomRendered("Two-Sum")),
   [null EXCEPT !.code = CodeB, !.slug = "two-sum", !.language = "java",
                !.runtime = "52ms", !.memory = "44.1MB", !.timestamp = DateNow],
   [null EXCEPT !.code = CodeB, !.title = "Accepted"]}

\* the pushes of the message listener and of the network observer, with the
\* fetch of the enrichment, the answer of the background and the timer of
\* markRecent
NextEnrich ==
  \/ /\ begun < MaxCaptures
     /\ \E payload \in PostedBare : PostMessage(payload)
  \/ /\ begun < MaxCaptures
     /\ \E requestData \in {ReqCode, ReqSpaced}, rendered \in BOOLEAN :
          HandleCandidate(RespSingle("Accepted"), requestData, rendered)
  \/ \E i \in 1..Len(pushes) : \E info \in Infos(pushes[i].payload.slug) : FetchDone(i, info)
  \/ \E i \in 1..Len(pushes), ok \in BOOLEAN : PushResponse(i, ok)
  \/ EvictTimer
  \/ \E slug \in PageSlugs : Navigate(slug)

SpecEnrich == Init /\ [][NextEnrich]_vars

\* the slug in title case
TitleCase(slug) ==
  CASE slug = "two-sum" -> "Two Sum"
    [] slug = "3sum" -> "3sum"
    [] slug = "unknown" -> "Unknown"

\* code, language, runtime, memory and timestamp are those of the record
SameSubmission(a, b) ==
  /\ a.code = b.code /\ a.language = b.language /\ a.runtime = b.runtime
  /\ a.memory = b.memory /\ a.timestamp = b.timestamp

\* C35: the enrichment leaves code, language, runtime, memory and timestamp
\* of the record as they were, before and after its fetch; the fetch that
\* fails (or answers without success, or cannot be read) adds nothing to
\* difficulty, description and problem number, a title that is missing or a
\* submission status becomes the slug in title case, and the push goes on
\* to its message; so it does after every answer of the fetch.
C35_EnrichmentNeverAborts ==
  /\ [][\A payload \in PostedBare :
          (PostMessage(payload) /\ begun' > begun)
            => SameSubmission(Last(pushes').payload, payload)]_vars
  /\ [][\A i \in 1..Len(pushes) : \A info \in Infos(pushes[i].payload.slug) :
          FetchDone(i, info)
            => /\ pushes'[i].pc = "awaiting"
               /\ SameSubmission(pushes'[i].payload, pushes[i].payload)]_vars
  /\ [][\A i \in 1..Len(pushes) :
          FetchDone(i, EmptyInfo)
            => LET before == pushes[i].payload
                   after == pushes'[i].payload
               IN  /\ after.difficulty = before.difficulty
                   /\ after.description = before.description
                   /\ after.problemNumber = before.problemNumber
                   /\ after.slug = before.slug
                   /\ after.title =
                        IF before.title = "" \/ isSubmissionStatus(before.title)
                        THEN TitleCase(before.slug) ELSE before.title]_vars

\* the record posted without a title goes to the background after a failed
\* fetch, titled from its slug and with nothing added
C35_Witness ==
  \E i \in 1..Len(pushes) :
    /\ pushes[i].pc = "awaiting" /\ pushes[i].via = "postMessage"
    /\ pushes[i].payload.title = "Two Sum" /\ pushes[i].payload.code = CodeB
    /\ pushes[i].payload.difficulty = "" /\ pushes[i].payload.description = ""
    /\ pushes[i].payload.problemNumber = ""

(***************************************************************************)
(* neetcode.ts: injectToolbarButton and its observer (lines 235-256), with *)
(* the document's elements of id neethub-toolbar-btn counted.              *)
(***************************************************************************)
\* a test that never finds the button
buttonMissing_Always(count) == TRUE

\* lines 238, 251, 275: !document.getElementById('neethub-toolbar-btn')
buttonMissing(count) == count = 0

\* attemptToolbarInjection (lines 273-394) on the count of buttons; notes: a
\* Notes button is found
attemptToolbarInjection(count, notes) ==
  IF ~buttonMissing(count) THEN count
  ELSE IF ~notes THEN count
  ELSE count + 1

\* tryInject (lines 237-241) and the observer's callback (lines 250-254)
tryInject(count, notes) ==
  IF buttonMissing(count) THEN attemptToolbarInjection(count, notes) ELSE count

\* what a call of tryInject leaves of the script's state: line 279 is come
\* to when no button is found
afterTryInject(notes) ==
  /\ buttons' = tryInject(buttons, notes)
  /\ toolbarBtn' = (buttons' > 0)
  /\ LET after == IF buttonMissing(buttons)
                  THEN checkAndResetProblemState
                  ELSE [slug |-> currentProblemSlug,
                        accepted |-> lastAcceptedSubmission,
                        failed |-> lastFailedSubmission,
                        monitoring |-> isMonitoringSubmission]
     IN  /\ currentProblemSlug' = after.slug
         /\ lastAcceptedSubmission' = after.accepted
         /\ lastFailedSubmission' = after.failed
         /\ isMonitoringSubmission' = after.monitoring
  /\ UNCHANGED <<pageSlug, recentKeys, evictTimers, toolbarButtonState,
                 lastRequestLanguage, pollers, autoTimers, successTimers,
                 pushes, begun, console, pageEditor, pageCode>>
  /\ UNCHANGED <<ghVars, bfsVars>>

\* the delays of lines 242-244
injectDelays == {1000, 2000, 4000}

\* injectToolbarButton: the first attempt, the three timers, the observer;
\* the observer is registered after the first attempt and is not told of it
InjectToolbarButton(notes) ==
  /\ ~observing
  /\ afterTryInject(notes)
  /\ injectTimers' = injectDelays
  /\ observing' = TRUE
  /\ UNCHANGED mutations

\* the record of an insertion of the button (line 391), if there was one
insertionRecord(before, after) == IF after # before THEN <<"button">> ELSE <<>>

\* the earliest pending timer fires, no mutation record waiting (records
\* are delivered before the next task)
InjectTimer(notes) ==
  /\ observing /\ mutations = <<>>
  /\ injectTimers # {}
  /\ afterTryInject(notes)
  /\ injectTimers' = injectTimers \ {CHOOSE d \in injectTimers : \A e \in injectTimers : d <= e}
  /\ mutations' = insertionRecord(buttons, buttons')
  /\ UNCHANGED observing

\* the observer is called with the records waiting
ObserverCallback(notes) ==
  /\ observing /\ mutations # <<>>
  /\ afterTryInject(notes)
  /\ mutations' = insertionRecord(buttons, buttons')
  /\ UNCHANGED <<injectTimers, observing>>

\* the host page changes its DOM; removes: it renders its toolbar anew and
\* the button is gone
HostMutation(removes) ==
  /\ observing /\ mutations = <<>>
  /\ buttons' = IF removes THEN 0 ELSE buttons
  /\ toolbarBtn' = (buttons' > 0)
  /\ mutations' = <<"host">>
  /\ UNCHANGED <<pageSlug, recentKeys, evictTimers, isMonitoringSubmission,
                 lastFailedSubmission, lastAcceptedSubmission,
                 currentProblemSlug, toolbarButtonState, lastRequestLanguage,
                 pollers, autoTimers, successTimers, pushes, begun, console,
                 pageEditor, pageCode, injectTimers, observing>>
  /\ UNCHANGED <<ghVars, bfsVars>>

\* the single-page application shows another problem and changes its DOM
HostNavigate(slug) ==
  /\ observing /\ mutations = <<>>
  /\ slug # pageSlug
  /\ pageSlug' = slug
  /\ mutations' = <<"host">>
  /\ UNCHANGED <<toolbarBtn, recentKeys, evictTimers, isMonitoringSubmission,
                 lastFailedSubmission, lastAcceptedSubmission,
                 currentProblemSlug, toolbarButtonState, lastRequestLanguage,
                 pollers, autoTimers, successTimers, pushes, begun, console,
                 pageEditor, pageCode, buttons, injectTimers, observing>>
  /\ UNCHANGED <<ghVars, bfsVars>>

\* the injection, the host page, and a push of the message listener
NextInject ==
  \/ \E notes \in BOOLEAN : InjectToolbarButton(notes)
  \/ \E notes \in BOOLEAN : InjectTimer(notes)
  \/ \E notes \in BOOLEAN : ObserverCallback(notes)
  \/ \E removes \in BOOLEAN : HostMutation(removes)
  \/ \E slug \in PageSlugs : HostNavigate(slug)
  \/ /\ mutations = <<>> /\ begun < MaxCaptures
     /\ \E payload \in PostedBare : PostMessage(payload)
  \/ /\ mutations = <<>>
     /\ \E i \in 1..Len(pushes) : \E info \in Infos(pushes[i].payload.slug) : FetchDone(i, info)
  \/ /\ mutations = <<>>
     /\ \E i \in 1..Len(pushes), ok \in BOOLEAN : PushResponse(i, ok)

SpecInject == Init /\ [][NextInject]_vars

\* C36: whatever the order of the observer's callbacks, the timers and the
\* changes of the host page, the document never holds more than one push
\* button; and the callback that follows an injection injects nothing.
C36_OneButton ==
  /\ [](buttons <= 1)
  /\ [][(buttons' = buttons + 1) =>
          /\ buttons = 0
          /\ observing => mutations' = <<"button">>]_vars
  /\ [][(mutations = <<"button">>) => (buttons' = buttons /\ mutations' = <<>>)]_vars

\* all timers have fired, the button has just been injected, and the
\* record of its insertion waits for the observer
C36_Witness ==
  /\ buttons = 1 /\ mutations = <<"button">> /\ observing
  /\ injectTimers = {}

MaxSessions == 2     \* acceptance loops and their timers per behaviour, for the claim on overlapping loops

\* the Submit button clicked again and again, the loops, the navigation of
\* the page and the injection of the button
NextSessions ==
  \/ startMonitoringForAcceptance(MaxSessions)
  \/ \E k \in 1..Len(pollers), accepted \in BOOLEAN :
       /\ accepted \/ pollers[k] < MaxPolls
       /\ PollTick(k, accepted)
  \/ /\ begun < MaxCaptures
     /\ \E rendered \in BOOLEAN : AutoTriggerPush(rendered)
  \/ \E i \in 1..Len(pushes) : \E info \in Infos(pushes[i].payload.slug) : FetchDone(i, info)
  \/ \E i \in 1..Len(pushes), ok \in BOOLEAN : PushResponse(i, ok)
  \/ \E slug \in PageSlugs : Navigate(slug)
  \/ RemoveButton
  \/ \E notes \in BOOLEAN : AttemptToolbarInjection(notes)

SpecSessions == Init /\ [][NextSessions]_vars

\* C37: at most one acceptance loop runs at any time: while the interval of
\* a loop has not been cleared, a click on Submit starts no other loop, also
\* after checkAndResetProblemState has reset isMonitoringSubmission.
C37_OneLoop ==
  /\ [](Len(pollers) <= 1)
  /\ [][pollers # <<>> => Len(pollers') <= Len(pollers)]_vars

(***************************************************************************)
(* background/index.ts: the handlers that change the settings, step by     *)
(* step: each awaits getSettings and then saveSettings, and the handlers   *)
(* of other messages run in between.                                       *)
(***************************************************************************)
\* the messages that change the settings
SettingsMessages ==
  {Message(TRUE, "success", "", "", FALSE), Message(TRUE, "", "logout", "", FALSE),
   Message(TRUE, "", "save-repo", "solutions", FALSE)}
    \cup {Message(TRUE, "", "toggle-upload", "", e) : e \in BOOLEAN}

\* the handler of a message has read the settings (lines 50, 88, 94 and
\* clearAuth)
SettingsRead(c, message) ==
  /\ calls[c].pc = "idle"
  /\ \A d \in Calls : d < c => calls[d].pc # "idle"
  /\ calls' = [calls EXCEPT ![c] =
                 [pc |-> "save", rec |-> calls[c].rec, token |-> "",
                  repo |-> "", file |-> 1, sha |-> <<>>, log |-> <<>>,
                  result |-> NoResult, pred |-> {}, overlap |-> {},
                  faulted |-> FALSE, message |-> message, read |-> settings]]
  /\ UNCHANGED <<settings, repoExists, files, faults>>

\* it saves them (lines 51-54, 89, 95 and clearAuth) and answers
SettingsSave(c) ==
  /\ calls[c].pc = "save"
  /\ settings' = settingsSaved(calls[c].read, calls[c].message)
  /\ calls' = [calls EXCEPT ![c].pc = "returned", ![c].result = Envelope(TRUE, "")]
  /\ UNCHANGED <<repoExists, files, faults>>

NextSettings ==
  /\ \E c \in Calls :
       \/ \E message \in SettingsMessages : SettingsRead(c, message)
       \/ SettingsSave(c)
  /\ UNCHANGED csVars

SpecSettings == InitCommit /\ [][NextSettings]_vars

\* the field of the settings a message is to change, and that the stored
\* settings hold what the message asked for
FieldOf(message) ==
  IF message.oauth = "success" \/ message.type = "logout" THEN "accessToken"
  ELSE IF message.type = "save-repo" THEN "repo"
  ELSE "uploadEnabled"
Reflected(message) ==
  IF message.oauth = "success" THEN settings.accessToken = "gho_token"
  ELSE IF message.type = "logout" THEN settings.accessToken = ""
  ELSE IF message.type = "save-repo" THEN settings.repo = message.repo
  ELSE settings.uploadEnabled = message.enabled

\* C38: no change of the settings is lost: once the handlers have answered,
\* the stored settings hold what each message asked for, for every message
\* whose field no other message was to change, also when the handlers ran
\* at the same time; and a save changes no field but its own.
C38_NoLostUpdate ==
  /\ []((\A c \in Calls : calls[c].pc \in {"idle", "returned"}) =>
          \A c \in Calls :
            (/\ calls[c].pc = "returned"
             /\ \A d \in Calls \ {c} :
                  calls[d].pc = "returned"
                    => FieldOf(calls[d].message) # FieldOf(calls[c].message))
              => Reflected(calls[c].message))
  /\ [][\A c \in Calls :
          (calls[c].pc = "save" /\ calls'[c].pc = "returned") =>
            \A f \in DOMAIN settings \ {FieldOf(calls[c].message)} :
              settings'[f] = settings[f]]_vars

(***************************************************************************)
(* autoTriggerPush and the language of the last request: requests are      *)
(* observed while the page shows Two-Sum, the loops of the Submit button   *)
(* run on either problem.                                                  *)
(***************************************************************************)
MaxLanguagePushes == 2     \* pushes begun per behaviour: one from a request, one from a loop

\* the requests of the page of Two-Sum: a Java solution, accepted or
\* rejected
NextLanguage ==
  \/ /\ pageSlug = "Two-Sum" /\ begun < MaxLanguagePushes
     /\ \E desc \in {"Accepted", "Wrong Answer"} :
          HandleCandidate(RespSingle(desc), ReqSpaced, TRUE)
  \/ SubmitClick
  \/ \E k \in 1..Len(pollers), accepted \in BOOLEAN :
       /\ accepted \/ pollers[k] < MaxPolls
       /\ PollTick(k, accepted)
  \/ /\ begun < MaxLanguagePushes
     /\ \E rendered \in BOOLEAN : AutoTriggerPush(rendered)
  \/ \E i \in 1..Len(pushes) : \E info \in Infos(pushes[i].payload.slug) : FetchDone(i, info)
  \/ \E i \in 1..Len(pushes), ok \in BOOLEAN : PushResponse(i, ok)
  \/ \E slug \in PageSlugs : Navigate(slug)
  \/ \E notes \in BOOLEAN : AttemptToolbarInjection(notes)

SpecLanguage == Init /\ [][NextLanguage]_vars

\* C39: autoTriggerPush takes the language of the last request only when
\* the request was of the problem it pushes: no request having been seen on
\* the page of 3sum, whose editor holds Python, an automatic push of 3sum
\* carries the language of the page and not the Java of a request of
\* Two-Sum.
C39_LanguageOfProblem ==
  \A i \in 1..Len(pushes) :
    (pushes[i].via = "auto-trigger" /\ pushes[i].payload.slug = "3sum")
      => pushes[i].payload.language = DomRendered("3sum").language

====
